---------------------------- MODULE Spec2Model ----------------------------
(***************************************************************************)
(* Model of the stack-based Latin square solver (src/LatinSquareSolver).   *)
(* A Node is a grid snapshot with the cursor (row, col) of the last placed *)
(* value and the candidate flags `moves`; the Stack is a linked list of    *)
(* deep copies of Nodes; solveLatinSquare is the backtracking driver.      *)
(***************************************************************************)
EXTENDS Integers, Sequences, FiniteSets, TLC

\* Largest grid size N of an input file.
MaxSize == 3
\* Largest number of non-zero cells, of either sign, in the sparse inputs of
\* size 3.
MaxGiven == 1
\* Largest number of clues in the inputs of size 3 that hold nothing but
\* clues.
MaxClues == 2

\* Largest search tree size counted for the cap on the step number.
MaxTree == 100000

\* The size of the square that the test program of the solver builds.
RowSize == 4

\* The size of the Nodes that the client of the stack builds.
TestSize == 2
\* Largest number of frames the client of the stack keeps on it.
MaxDepth == 2

VARIABLES
    node,         \* main: the Node read from the input file
    stack,        \* the Stack: [nodes: frames from the top down, size: stack->size]
    stackLive,    \* TRUE while the Stack structure is allocated
    newNode,      \* solveLatinSquare: the working copy (NoNode when released)
    row, col,     \* solveLatinSquare: the cell found by findNextEmptyCell
    pushCounter,  \* solveLatinSquare: pushes performed
    popCounter,   \* solveLatinSquare: pops counted
    stepCounter,  \* solveLatinSquare: the step number
    pc,           \* "start", "call", "SEARCHING", "SOLVED", "UNSOLVABLE", "returned", "exit"
    result,       \* the value returned by solveLatinSquare
    rerun,        \* TRUE in the second run, made on the first run's solved grid
    trace,        \* the calls of push and pop made by solveLatinSquare, in order
    pushed,       \* the grids solveLatinSquare has pushed in the solve that runs, in order
    prev,         \* what an earlier run on the same input did (NoRun when none)
    file,         \* main: the input file as readLatinNode met it, [read, toks]
    heap,         \* client of the stack: the allocated storage, by address
    hstack,       \* client of the stack: its Stack, [top: address, size: stack->size]
    caller,       \* client of the stack: address of the Node it builds (Null when none)
    ret,          \* client of the stack: the Node the last pop handed back
    rc,           \* client of the stack: the code the last push or pop returned
    op,           \* client of the stack: its last operation
    hist,         \* client of the stack: the Nodes pushed and not yet popped, oldest first
    text,         \* isValidParentheses: the lines of the file, as written
    fp,           \* isValidParentheses: the characters of the file not yet read
    line,         \* isValidParentheses: the buffer that fgets filled
    idx,          \* isValidParentheses: the index k into the buffer
    parens,       \* isValidParentheses: its STACK, [top: data from the top down, size]
    isValidLine,  \* isValidParentheses: no ')' without a '(' so far in the buffer
    flag,         \* isValidParentheses: the value to return
    lineIndex,    \* isValidParentheses: the number of the buffer being scanned
    reported,     \* isValidParentheses: the numbers printed as not balanced
    fpc,          \* isValidParentheses: "start", "fgets", "scan", "returned", "refused"
    gsquare,      \* game: square, the part within size
    gsize,        \* game: size
    given,        \* game: the square as readLatinSquare left it
    said,         \* game: what play printed for the last command
    gpc,          \* game: "start", "play", "over", "exit", "refused"
    work,         \* solve on storage: address of newNode, the working copy
    mpc,          \* solve on storage: "start", "call", "SEARCHING", "returned true",
                  \* "returned false", "exit", "fault"
    twice,        \* solve on storage: TRUE once storage not allocated was released
    call,         \* a call of checkDuplicates or updateNode: [fn, node, num, row, col]
    out           \* what that call returned, or the Node as it left it

\* The variables of main and solveLatinSquare.
solverVars == <<node, stack, stackLive, newNode, row, col, pushCounter, popCounter,
                stepCounter, pc, result, rerun, trace, prev, file, pushed>>

\* The variables of the client of the stack.
clientVars == <<heap, hstack, caller, ret, rc, op, hist>>

\* The variables of isValidParentheses.
formulaVars == <<text, fp, line, idx, parens, isValidLine, flag, lineIndex, reported, fpc>>

\* The variables of the game.
gameVars == <<gsquare, gsize, given, said, gpc>>

\* The variables of the solve on allocated storage, with heap, hstack and
\* caller.
memVars == <<work, mpc, twice>>

\* The variables of a single call of checkDuplicates or updateNode.
callVars == <<call, out>>

vars == <<node, stack, stackLive, newNode, row, col, pushCounter, popCounter,
          stepCounter, pc, result, rerun, trace, prev, file, pushed,
          heap, hstack, caller, ret, rc, op, hist,
          text, fp, line, idx, parens, isValidLine, flag, lineIndex, reported, fpc,
          gsquare, gsize, given, said, gpc,
          work, mpc, twice,
          call, out>>

-----------------------------------------------------------------------------
(* Node *)

\* A released or unallocated Node.
NoNode == [null |-> TRUE]

\* No earlier run on the same input.
NoRun == [none |-> TRUE]

Idx(n) == 0 .. (n - 1)

abs(x) == IF x < 0 THEN -x ELSE x

\* initNode(&newNode, NULL, size): zero grid, every candidate untried, cursor (0,0).
initNode(size) ==
    [size   |-> size,
     square |-> [i \in Idx(size) |-> [j \in Idx(size) |-> 0]],
     row    |-> 0,
     col    |-> 0,
     moves  |-> [i \in Idx(size) |-> 1]]

\* readLatinNode: initNode, then every cell read from the file.
readLatinNode(size, grid) ==
    [initNode(size) EXCEPT !.square = [i \in Idx(size) |-> [j \in Idx(size) |-> grid[i][j]]]]

\* A clone that copies the magnitudes of the cells and drops the clue signs.
cloneNode_Magnitudes(n) ==
    [size   |-> n.size,
     square |-> [i \in Idx(n.size) |-> [j \in Idx(n.size) |-> abs(n.square[i][j])]],
     row    |-> n.row,
     col    |-> n.col,
     moves  |-> [i \in Idx(n.size) |-> n.moves[i]]]

\* cloneNode: a new Node with row, col, size, the matrix and the moves copied.
cloneNode(n) ==
    [size   |-> n.size,
     square |-> [i \in Idx(n.size) |-> [j \in Idx(n.size) |-> n.square[i][j]]],
     row    |-> n.row,
     col    |-> n.col,
     moves  |-> [i \in Idx(n.size) |-> n.moves[i]]]

\* An update that writes the transposed cell.
updateNode_Transposed(n, r, c, num) ==
    [n EXCEPT !.square[c][r] = num,
              !.row = r,
              !.col = c,
              !.moves = [i \in Idx(n.size) |-> 1]]

\* An update that forgets to reset the candidate flags.
updateNode_NoReset(n, r, c, num) ==
    [n EXCEPT !.square[r][c] = num,
              !.row = r,
              !.col = c]

\* An update that leaves the cursor one row below the cell written, when
\* there is such a row.
updateNode_CursorBelow(n, r, c, num) ==
    [n EXCEPT !.square[r][c] = num,
              !.row = IF r + 1 < n.size THEN r + 1 ELSE r,
              !.col = c,
              !.moves = [i \in Idx(n.size) |-> 1]]

\* An update that refuses a value outside 1..size.
updateNode_Validates(n, r, c, num) ==
    IF num < 1 \/ num > n.size THEN n
    ELSE [n EXCEPT !.square[r][c] = num,
                   !.row = r,
                   !.col = c,
                   !.moves = [i \in Idx(n.size) |-> 1]]

\* updateNode: writes the cell, moves the cursor, resets every candidate flag.
updateNode(n, r, c, num) ==
    [n EXCEPT !.square[r][c] = num,
              !.row = r,
              !.col = c,
              !.moves = [i \in Idx(n.size) |-> 1]]

-----------------------------------------------------------------------------
(* Stack *)

\* initStack: top = NULL, size = 0.
initStack == [nodes |-> <<>>, size |-> 0]

isEmpty(s) == s.size = 0

\* stack->top
Top(s) == Head(s.nodes)

\* A push that resets the candidate flags of the frame it covers.
push_ResetsCovered(s, n) ==
    [nodes |-> <<cloneNode(n)>> \o
               (IF s.nodes = <<>> THEN <<>>
                ELSE <<[Head(s.nodes) EXCEPT !.moves = [i \in Idx(n.size) |-> 1]]>>
                     \o Tail(s.nodes)),
     size  |-> s.size + 1]

\* A push that counts the new frame twice.
push_CountsTwice(s, n) ==
    [nodes |-> <<cloneNode(n)>> \o s.nodes, size |-> s.size + 2]

\* push: a clone of the Node becomes the new top, size is incremented.
push(s, n) == [nodes |-> <<cloneNode(n)>> \o s.nodes, size |-> s.size + 1]

\* pop, the stack it leaves: the top is unlinked and released, size decremented.
\* On an empty stack pop fails and leaves the stack as it is.
popStack(s) ==
    IF isEmpty(s) THEN s
    ELSE [nodes |-> Tail(s.nodes), size |-> s.size - 1]

\* pop, the Node it hands back in retNode: row, col, size, matrix and moves
\* of the removed top.
popNode(s) ==
    LET temp == Top(s) IN
    [size   |-> temp.size,
     square |-> [i \in Idx(temp.size) |-> [j \in Idx(temp.size) |-> temp.square[i][j]]],
     row    |-> temp.row,
     col    |-> temp.col,
     moves  |-> [i \in Idx(temp.size) |-> temp.moves[i]]]

-----------------------------------------------------------------------------
(* Node and Stack on allocated storage *)

\* The heap is a sequence of cells, a cell's address its index. A cell is a
\* Node structure, an array of ints (a row or the moves), an array of
\* pointers (the square), or free.
Null == 0

FreeCell == [kind |-> "free"]

IntCell(a) == [kind |-> "ints", at |-> a]

PtrCell(a) == [kind |-> "ptrs", at |-> a]

\* malloc: the address of a free cell, the lowest one; a released address
\* is handed out again.
malloc(h) ==
    IF \E a \in 1 .. Len(h) : h[a] = FreeCell
    THEN CHOOSE a \in 1 .. Len(h) :
             h[a] = FreeCell /\ \A b \in 1 .. (a - 1) : h[b] # FreeCell
    ELSE Len(h) + 1

\* A store to the cell at address a.
setCell(h, a, v) == IF a = Len(h) + 1 THEN Append(h, v) ELSE [h EXCEPT ![a] = v]

\* The ints read through address a; <<>> when no int array lives there.
IntsAt(h, a) ==
    IF a \in 1 .. Len(h) /\ h[a].kind = "ints" THEN h[a].at ELSE <<>>

\* The pointers read through address a; <<>> when no pointer array lives there.
PtrsAt(h, a) ==
    IF a \in 1 .. Len(h) /\ h[a].kind = "ptrs" THEN h[a].at ELSE <<>>

\* The Node read through pointer p: size, cursor, matrix and moves as the
\* pointers of the structure reach them now.
Deref(h, p) ==
    IF ~(p \in 1 .. Len(h) /\ h[p].kind = "node") THEN NoNode
    ELSE [size   |-> h[p].size,
          square |-> [i \in Idx(Len(PtrsAt(h, h[p].square))) |->
                         IntsAt(h, PtrsAt(h, h[p].square)[i + 1])],
          row    |-> h[p].row,
          col    |-> h[p].col,
          moves  |-> IntsAt(h, h[p].moves)]

\* The rows from index i on are allocated one by one, row k filled from
\* grid[k].
RECURSIVE allocRows(_, _, _, _)
allocRows(h, grid, n, i) ==
    IF i >= n THEN [heap |-> h, rows |-> <<>>]
    ELSE LET a    == malloc(h)
             rest == allocRows(setCell(h, a, IntCell(grid[i])), grid, n, i + 1)
         IN  [heap |-> rest.heap, rows |-> <<a>> \o rest.rows]

\* The arrays of the Node structure at p are allocated and filled from the
\* Node value v: the moves array and the pointer array of the square in the
\* order given, then the rows; next is NULL.
fillNode(h, p, v, movesFirst) ==
    LET a1 == malloc(h)
        h1 == setCell(h, a1, IF movesFirst THEN IntCell(v.moves) ELSE PtrCell(<<>>))
        a2 == malloc(h1)
        h2 == setCell(h1, a2, IF movesFirst THEN PtrCell(<<>>) ELSE IntCell(v.moves))
        mv == IF movesFirst THEN a1 ELSE a2
        sq == IF movesFirst THEN a2 ELSE a1
        r  == allocRows(h2, v.square, v.size, 0)
    IN  [r.heap EXCEPT ![sq] = PtrCell(r.rows),
                       ![p]  = [kind |-> "node", size |-> v.size, row |-> v.row,
                                col |-> v.col, square |-> sq, moves |-> mv,
                                next |-> Null]]

\* initNode(&newNode, NULL, size) on the heap, the cells then set to grid:
\* the structure, the square, the moves and the rows are allocated.
initNodeAt(h, size, grid) ==
    LET p == malloc(h) IN
    [heap |-> fillNode(setCell(h, p, PtrCell(<<>>)), p,
                       readLatinNode(size, grid), FALSE),
     ptr  |-> p]

\* A clone that copies the structure alone: the clone points to the rows and
\* the moves of the original.
cloneNodeAt_Shallow(h, p) ==
    LET q == malloc(h) IN
    [heap |-> setCell(h, q, [h[p] EXCEPT !.next = Null]), ptr |-> q]

\* cloneNode on the heap: a new structure with row, col and size copied,
\* new moves, square and rows with the values copied.
cloneNodeAt(h, p) ==
    LET q == malloc(h) IN
    [heap |-> fillNode(setCell(h, q, PtrCell(<<>>)), q, Deref(h, p), TRUE),
     ptr  |-> q]

\* The cells at the addresses in the sequence as are released.
RECURSIVE freeAll(_, _)
freeAll(h, as) ==
    IF as = <<>> THEN h
    ELSE freeAll(IF Head(as) \in 1 .. Len(h)
                    THEN [h EXCEPT ![Head(as)] = FreeCell] ELSE h,
                 Tail(as))

\* A freeNode that leaves the moves array allocated.
freeNodeAt_KeepsMoves(h, p) ==
    IF p = Null THEN h
    ELSE freeAll(h, PtrsAt(h, h[p].square) \o <<h[p].square, p>>)

\* freeNode: the rows, the square, the moves and the structure are released.
freeNodeAt(h, p) ==
    IF p = Null THEN h
    ELSE freeAll(h, PtrsAt(h, h[p].square) \o <<h[p].square, h[p].moves, p>>)

\* updateNode through the pointer p.
updateNodeAt(h, p, r, c, num) ==
    LET rowAddr == PtrsAt(h, h[p].square)[r + 1] IN
    [h EXCEPT ![rowAddr].at[c] = num,
              ![p].row = r,
              ![p].col = c,
              ![h[p].moves].at = [i \in Idx(h[p].size) |-> 1]]

\* initStack on the heap level: top = NULL, size = 0.
initStackAt == [top |-> Null, size |-> 0]

\* push: fails on a NULL Node; else a clone becomes the top, linked to the
\* old top, and size is incremented.
pushAt(h, s, p) ==
    IF p = Null THEN [heap |-> h, stack |-> s, rc |-> "EXIT_FAILURE"]
    ELSE LET c == cloneNodeAt(h, p) IN
         [heap  |-> [c.heap EXCEPT ![c.ptr].next = s.top],
          stack |-> [top |-> c.ptr, size |-> s.size + 1],
          rc    |-> "EXIT_SUCCESS"]

\* push when cloneNode finds no storage and returns NULL (whatever cloneNode
\* had allocated it has released): the result is not tested. On a stack
\* without a top, top is set to NULL and size is incremented; else the store
\* to pushedNode->next goes through the NULL pointer.
pushAtNoStorage(h, s, p) ==
    IF p = Null THEN [heap |-> h, stack |-> s, rc |-> "EXIT_FAILURE"]
    ELSE IF s.top = Null
    THEN [heap |-> h, stack |-> [top |-> Null, size |-> s.size + 1],
          rc |-> "EXIT_SUCCESS"]
    ELSE [heap |-> h, stack |-> s, rc |-> "fault"]

\* A pop that counts down on an empty stack.
popAt_CountsDown(h, s, r) ==
    IF s.size = 0
    THEN [heap |-> h, stack |-> [s EXCEPT !.size = s.size - 1], rc |-> "EXIT_FAILURE"]
    ELSE [heap  |-> freeNodeAt(fillNode(h, r, Deref(h, s.top), FALSE), s.top),
          stack |-> [top |-> h[s.top].next, size |-> s.size - 1],
          rc    |-> "EXIT_SUCCESS"]

\* A pop that also resets the moves of the frame below the top.
popAt_ResetsBelow(h, s, r) ==
    IF s.size = 0 \/ r = Null
    THEN [heap |-> h, stack |-> s, rc |-> "EXIT_FAILURE"]
    ELSE LET h1 == freeNodeAt(fillNode(h, r, Deref(h, s.top), FALSE), s.top)
             below == h[s.top].next
         IN
         [heap  |-> IF below = Null THEN h1
                    ELSE [h1 EXCEPT ![h1[below].moves].at =
                                        [i \in Idx(h1[below].size) |-> 1]],
          stack |-> [top |-> below, size |-> s.size - 1],
          rc    |-> "EXIT_SUCCESS"]

\* A pop that hands back the cursor with row and col exchanged.
popAt_SwapsCursor(h, s, r) ==
    IF s.size = 0 \/ r = Null
    THEN [heap |-> h, stack |-> s, rc |-> "EXIT_FAILURE"]
    ELSE LET v == Deref(h, s.top) IN
         [heap  |-> freeNodeAt(fillNode(h, r, [v EXCEPT !.row = v.col, !.col = v.row],
                                        FALSE), s.top),
          stack |-> [top |-> h[s.top].next, size |-> s.size - 1],
          rc    |-> "EXIT_SUCCESS"]

\* pop: fails on an empty stack or a NULL retNode and changes nothing; else
\* the top is unlinked, size decremented, row, col, size, the matrix and the
\* moves are copied into new arrays of retNode, and the old top is released.
popAt(h, s, r) ==
    IF s.size = 0 \/ r = Null
    THEN [heap |-> h, stack |-> s, rc |-> "EXIT_FAILURE"]
    ELSE [heap  |-> freeNodeAt(fillNode(h, r, Deref(h, s.top), FALSE), s.top),
          stack |-> [top |-> h[s.top].next, size |-> s.size - 1],
          rc    |-> "EXIT_SUCCESS"]

\* The frames of the stack from the top down, each as the Node read through
\* its pointer; at most k links are followed.
RECURSIVE FramesFrom(_, _, _)
FramesFrom(h, p, k) ==
    IF p = Null \/ k = 0 THEN <<>>
    ELSE <<Deref(h, p)>> \o
         FramesFrom(h, IF p \in 1 .. Len(h) /\ h[p].kind = "node"
                          THEN h[p].next ELSE Null, k - 1)

-----------------------------------------------------------------------------
(* Algorithm *)

\* A check that finds no duplicate.
checkDuplicates_Never(n, num, r, c) == FALSE

\* A check that looks at the row alone.
checkDuplicates_RowOnly(n, num, r, c) ==
    \E k \in Idx(n.size) : k # c /\ abs(n.square[r][k]) = num

\* A check that counts the cell (r, c) itself.
checkDuplicates_CountsCell(n, num, r, c) ==
    \/ \E k \in Idx(n.size) : abs(n.square[r][k]) = num
    \/ \E k \in Idx(n.size) : abs(n.square[k][c]) = num

\* checkDuplicates: num occurs, by absolute value, in the row outside column
\* c or in the column outside row r.
checkDuplicates(n, num, r, c) ==
    \/ \E k \in Idx(n.size) : k # c /\ abs(n.square[r][k]) = num
    \/ \E k \in Idx(n.size) : k # r /\ abs(n.square[k][c]) = num

\* A test that takes clue cells for empty ones.
isEmptyCell_NonPositive(v) == v <= 0

\* The test of findNextEmptyCell for an empty cell.
isEmptyCell(v) == v = 0

\* The two loops of findNextEmptyCell from cell (i, j) on: the column index
\* restarts at 0 after the first row scanned.
RECURSIVE scanCells(_, _, _)
scanCells(n, i, j) ==
    IF i >= n.size THEN <<-1, -1>>
    ELSE IF j >= n.size THEN scanCells(n, i + 1, 0)
    ELSE IF isEmptyCell(n.square[i][j]) THEN <<i, j>>
    ELSE scanCells(n, i, j + 1)

\* The scan without the column reset: every row starts at the cursor's column.
RECURSIVE scanCells_NoReset(_, _, _)
scanCells_NoReset(n, i, j) ==
    IF i >= n.size THEN <<-1, -1>>
    ELSE IF j >= n.size THEN scanCells_NoReset(n, i + 1, n.col)
    ELSE IF isEmptyCell(n.square[i][j]) THEN <<i, j>>
    ELSE scanCells_NoReset(n, i, j + 1)

findNextEmptyCell_NoReset(n) == scanCells_NoReset(n, n.row, n.col)

\* A search that hands back the last empty cell of the grid.
findNextEmptyCell_Last(n) ==
    LET zeros == {c \in Idx(n.size) \X Idx(n.size) : isEmptyCell(n.square[c[1]][c[2]])} IN
    IF zeros = {} THEN <<-1, -1>>
    ELSE CHOOSE c \in zeros :
             \A d \in zeros : d[1] * n.size + d[2] <= c[1] * n.size + c[2]

\* findNextEmptyCell: the first empty cell in row-major order from the
\* cursor (n.row, n.col) on, or <<-1, -1>>.
findNextEmptyCell(n) == scanCells(n, n.row, n.col)

\* The placement loop of solveLatinSquare from value i on: the first value
\* whose flag is untried and that has no duplicate; 0 when the loop ends
\* without a push.
RECURSIVE tryFrom(_, _, _, _, _)
tryFrom(n, r, c, i, last) ==
    IF i > last THEN 0
    ELSE IF n.moves[i - 1] = 1 /\ ~checkDuplicates(n, i, r, c) THEN i
    ELSE tryFrom(n, r, c, i + 1, last)

\* A placement loop that stops one value early (i < size).
firstCandidate_SkipLast(n, r, c) == tryFrom(n, r, c, 1, n.size - 1)

\* A placement loop that runs from size down to 1.
firstCandidate_Descending(n, r, c) ==
    LET ok == {i \in 1 .. n.size : n.moves[i - 1] = 1 /\ ~checkDuplicates(n, i, r, c)} IN
    IF ok = {} THEN 0 ELSE CHOOSE i \in ok : \A j \in ok : j <= i

\* for (i = 1; i <= size; i++) of solveLatinSquare.
firstCandidate(n, r, c) == tryFrom(n, r, c, 1, n.size)

\* A backtrack that marks nothing on the new top.
markTried_Nothing(frame, retNode) == frame

\* A backtrack that also moves the cursor of the new top to the popped cell.
markTried_MovesCursor(frame, retNode) ==
    LET indexToChange == retNode.square[retNode.row][retNode.col] - 1 IN
    [frame EXCEPT !.moves[indexToChange] = 0,
                  !.row = retNode.row,
                  !.col = retNode.col]

\* The backtrack's mark on the new top: the flag of the value the popped
\* Node holds at its cursor is cleared.
markTried(frame, retNode) ==
    LET indexToChange == retNode.square[retNode.row][retNode.col] - 1 IN
    [frame EXCEPT !.moves[indexToChange] = 0]

-----------------------------------------------------------------------------
(* Inputs *)

Cells(n) == Idx(n) \X Idx(n)

\* Every grid of size n with cells in [-n, n].
AllGrids(n) == [Idx(n) -> [Idx(n) -> (-n) .. n]]

\* The grids of size n with at most k non-zero cells, their values in V.
SparseGrids(n, k, V) ==
    UNION { { [i \in Idx(n) |-> [j \in Idx(n) |->
                  IF <<i, j>> \in S THEN f[<<i, j>>] ELSE 0]]
              : f \in [S -> V] }
            : S \in { T \in SUBSET Cells(n) : Cardinality(T) <= k } }

\* The grids of size n whose rows are each empty, a cyclic shift of 1..n, or
\* a cyclic shift of 1..n given as clues.
RowSet(n) ==
    {[j \in Idx(n) |-> 0]}
    \cup {[j \in Idx(n) |-> ((j + s) % n) + 1] : s \in Idx(n)}
    \cup {[j \in Idx(n) |-> -(((j + s) % n) + 1)] : s \in Idx(n)}

RowGrids(n) == [Idx(n) -> RowSet(n)]

\* The grids of size n whose last cell is blocked: the last row holds the
\* clues 1..n-1 and the last column the clue n.
BlockedGrids(n) ==
    { [i \in Idx(n) |-> [j \in Idx(n) |->
          IF i = n - 1 /\ j < n - 1 THEN -(j + 1)
          ELSE IF i = r /\ j = n - 1 THEN -n
          ELSE 0]]
      : r \in Idx(n - 1) }

\* The row grids of size n whose rows but the last two are filled in, row i
\* with the cyclic shift by i.
LastRowsGrids(n) ==
    { g \in RowGrids(n) :
        \A i \in Idx(n - 2) : g[i] = [j \in Idx(n) |-> ((j + i) % n) + 1] }

\* The rows of length n that hold each value 1..n once.
Perms(n) == {p \in [Idx(n) -> 1 .. n] : \A j, k \in Idx(n) : j # k => p[j] # p[k]}

\* The grids of size n with one row empty and every other row a permutation
\* of 1..n, no value twice in a column; each filled row is given either as
\* entered values or as clues.
OneRowOpen(n) ==
    LET Filled == { f \in [Idx(n - 1) -> Perms(n)] :
                      \A i, k \in Idx(n - 1) : i # k =>
                          \A j \in Idx(n) : f[i][j] # f[k][j] }
        Signs  == [Idx(n - 1) -> {1, -1}]
    IN  { [i \in Idx(n) |-> [j \in Idx(n) |->
              IF i = z THEN 0
              ELSE IF i < z THEN sg[i] * f[i][j]
              ELSE sg[i - 1] * f[i - 1][j]]]
          : z \in Idx(n), f \in Filled, sg \in Signs }

\* The input files of size n: every grid for the sizes 1 and 2; for size 3
\* the grids with few filled-in cells, the grids with few clues, the row grids
\* and the blocked grids; for the larger sizes the row grids that leave the
\* last two rows open and the blocked grids.
Inputs(n) ==
    IF n <= 2 THEN AllGrids(n)
    ELSE IF n = 3 THEN SparseGrids(n, MaxGiven, 1 .. n)
                       \cup SparseGrids(n, MaxClues, (-n) .. (-1))
                       \cup RowGrids(n) \cup BlockedGrids(n)
    ELSE LastRowsGrids(n) \cup BlockedGrids(n)

\* The number of zero cells of a grid.
Zeros(g, n) == Cardinality({c \in Cells(n) : g[c[1]][c[2]] = 0})

\* The number of nodes of the search tree over z empty cells with n values
\* each, 1 + n + ... + n^z, counted up to MaxTree.
RECURSIVE TreeSize(_, _)
TreeSize(n, z) ==
    IF z = 0 THEN 1
    ELSE CHOOSE m \in {IF t >= MaxTree THEN MaxTree ELSE 1 + n * t
                          : t \in {TreeSize(n, z - 1)}} : TRUE

\* The step numbers of a solve stay within twice the size of the search tree
\* over the zero cells of the input; the guard caps stepCounter there.
StepLimit == 2 * TreeSize(node.size, Zeros(node.square, node.size))

-----------------------------------------------------------------------------
(* The input file *)

\* A file is a sequence of tokens separated by white space. A token is the
\* decimal text of an integer, kept as lo + hi * 2^32 with lo an int, or a
\* word that is no number.
Tok(v) == [num |-> TRUE, hi |-> 0, lo |-> v]

Wide(v) == [num |-> TRUE, hi |-> 1, lo |-> v]

Word == [num |-> FALSE, hi |-> 0, lo |-> 0]

\* The largest int.
IntMax == 2147483647

\* The int that fscanf("%d") stores for a numeric token. A number that no int
\* can hold is converted with undefined behaviour: the library keeps its low
\* 32 bits or stores the nearest int.
scanned(tok, conv) ==
    IF tok.hi = 0 THEN tok.lo
    ELSE IF conv = "low bits" THEN tok.lo
    ELSE IF tok.hi > 0 THEN IntMax ELSE -IntMax - 1

\* fscanf("%d") on token k of the file returns 1.
scans(toks, k) == k <= Len(toks) /\ toks[k].num

\* readLatinNode on the tokens of a file. The size is read; initNode is
\* called (it hands back NULL when an allocation fails: always for a negative
\* size, and for size 0 when malloc(0) returns NULL); size * size cells are
\* read and each compared with [-size, size]; one more value must not follow.
\* The result is "rejected" (exit with EXIT_FAILURE) or the Node built.
parseFile(toks, conv, zeroAlloc) ==
    IF ~scans(toks, 1) THEN [outcome |-> "rejected", node |-> NoNode]
    ELSE LET size  == scanned(toks[1], conv)
             count == IF size > 0 THEN size * size ELSE 0
             cell(k) == scanned(toks[k + 1], conv)
         IN
         IF \E k \in 1 .. count :
                \/ ~scans(toks, k + 1)
                \/ cell(k) < -size
                \/ cell(k) > size
         THEN [outcome |-> "rejected", node |-> NoNode]
         ELSE IF scans(toks, count + 2)
         THEN [outcome |-> "rejected", node |-> NoNode]
         ELSE IF size < 0 \/ (size = 0 /\ ~zeroAlloc)
         THEN [outcome |-> "read", node |-> NoNode]
         ELSE [outcome |-> "read",
               node |-> readLatinNode(size,
                            [i \in Idx(size) |-> [j \in Idx(size) |->
                                cell(i * size + j + 1)]])]

\* The tokens of the cells of a grid, row by row.
CellToks(g, n) == [k \in 1 .. n * n |-> Tok(g[(k - 1) \div n][(k - 1) % n])]

\* The grids written to files: every grid for the sizes 1 and 2, the empty
\* grid and the grid of cyclic shifts for the larger sizes.
FileGrids(n) ==
    IF n <= 2 THEN AllGrids(n)
    ELSE { [i \in Idx(n) |-> [j \in Idx(n) |-> 0]],
           [i \in Idx(n) |-> [j \in Idx(n) |-> ((j + i) % n) + 1]] }

\* The tokens that are no cell value of a grid of size n.
BadToks(n) == {Tok(n + 1), Tok(-(n + 1)), Wide(0), Wide(n), Word}

\* The files of size n: the cells of a grid, as they are, with one cell
\* replaced by a token that is no cell value, cut short, followed by one
\* more token, or followed by a word and a value.
FilesOf(n) ==
    LET Good == {CellToks(g, n) : g \in FileGrids(n)} IN
    {<<Tok(n)>> \o c : c \in Good}
    \cup {<<Tok(n)>> \o [c EXCEPT ![k] = t] : c \in Good, k \in 1 .. n * n, t \in BadToks(n)}
    \cup {<<Tok(n)>> \o SubSeq(c, 1, k) : c \in Good, k \in 0 .. (n * n - 1)}
    \cup {<<Tok(n)>> \o c \o <<t>> : c \in Good, t \in BadToks(n) \cup {Tok(0)}}
    \cup {<<Tok(n)>> \o c \o <<Word, Tok(0)>> : c \in Good}

\* The input files: the empty file, files that start with a word or with a
\* size of 0 or -1, and the files of the sizes 1..MaxSize.
Files ==
    {<<>>, <<Word>>, <<Word, Tok(0)>>}
    \cup {<<Tok(n)>> \o rest : n \in {-1, 0}, rest \in {<<>>, <<Tok(0)>>, <<Tok(1)>>, <<Word>>}}
    \cup UNION {FilesOf(n) : n \in 1 .. MaxSize}

-----------------------------------------------------------------------------
(* main and solveLatinSquare *)

\* The program starts: nothing is allocated.
Init ==
    /\ node = NoNode
    /\ stack = initStack
    /\ stackLive = FALSE
    /\ newNode = NoNode
    /\ row = -1
    /\ col = -1
    /\ pushCounter = 0
    /\ popCounter = 0
    /\ stepCounter = 0
    /\ pc = "start"
    /\ result = FALSE
    /\ rerun = FALSE
    /\ trace = <<>>
    /\ prev = NoRun
    /\ file = [read |-> FALSE, toks |-> <<>>]
    /\ pushed = <<>>
    /\ heap = <<>>
    /\ hstack = initStackAt
    /\ caller = Null
    /\ ret = NoNode
    /\ rc = "none"
    /\ op = "none"
    /\ hist = <<>>
    /\ text = <<>>
    /\ fp = <<>>
    /\ line = <<>>
    /\ idx = 0
    /\ parens = [top |-> <<>>, size |-> 0]
    /\ isValidLine = TRUE
    /\ flag = TRUE
    /\ lineIndex = 0
    /\ reported = {}
    /\ fpc = "start"
    /\ gsquare = <<>>
    /\ gsize = 0
    /\ given = <<>>
    /\ said = "none"
    /\ gpc = "start"
    /\ work = Null
    /\ mpc = "start"
    /\ twice = FALSE
    /\ call = [fn |-> "none"]
    /\ out = "none"

\* main up to the call of solveLatinSquare: the Node read from the file is
\* pushed on a new stack.
Load ==
    /\ pc = "start"
    /\ \E n \in 1 .. MaxSize : \E g \in Inputs(n) :
        /\ node' = readLatinNode(n, g)
        /\ stack' = push(initStack, readLatinNode(n, g))
    /\ stackLive' = TRUE
    /\ pc' = "call"
    /\ UNCHANGED <<newNode, row, col, pushCounter, popCounter, stepCounter,
                   result, rerun, trace, prev>>
    /\ UNCHANGED file
    /\ UNCHANGED pushed
    /\ UNCHANGED clientVars
    /\ UNCHANGED <<formulaVars, gameVars, memVars, callVars>>

\* The end of a driver step: the working copy is released and replaced by a
\* clone of the top s, from which the next empty cell is searched.
NextCell(s) ==
    /\ newNode' = cloneNode(Top(s))
    /\ row' = findNextEmptyCell(newNode')[1]
    /\ col' = findNextEmptyCell(newNode')[2]

\* solveLatinSquare before its loop.
Enter ==
    /\ pc = "call"
    /\ pushCounter' = 0
    /\ popCounter' = 0
    /\ stepCounter' = 1
    /\ NextCell(stack)
    /\ trace' = <<>>
    /\ pc' = "SEARCHING"
    /\ UNCHANGED <<node, stack, stackLive, result, rerun, prev>>
    /\ UNCHANGED file
    /\ pushed' = <<>>
    /\ UNCHANGED clientVars
    /\ UNCHANGED <<formulaVars, gameVars, memVars, callVars>>

\* A placement that takes any untried value without a duplicate, not the
\* first one.
Place_AnyCandidate ==
    /\ pc = "SEARCHING"
    /\ row # -1 /\ col # -1
    /\ stepCounter <= StepLimit
    /\ \E v \in 1 .. newNode.size :
        /\ newNode.moves[v - 1] = 1
        /\ ~checkDuplicates(newNode, v, row, col)
        /\ stack' = push(stack, updateNode(newNode, row, col, v))
    /\ pushCounter' = pushCounter + 1
    /\ NextCell(stack')
    /\ stepCounter' = stepCounter + 1
    /\ trace' = Append(trace, "push")
    /\ UNCHANGED <<node, stackLive, popCounter, pc, result, rerun, prev>>
    /\ UNCHANGED file
    /\ pushed' = Append(pushed, Top(stack').square)
    /\ UNCHANGED clientVars
    /\ UNCHANGED <<formulaVars, gameVars, memVars, callVars>>

\* A step that places a value: the first candidate is written to the working
\* copy, which is pushed.
Place ==
    /\ pc = "SEARCHING"
    /\ row # -1 /\ col # -1
    /\ stepCounter <= StepLimit
    /\ firstCandidate(newNode, row, col) # 0
    /\ stack' = push(stack, updateNode(newNode, row, col, firstCandidate(newNode, row, col)))
    /\ pushCounter' = pushCounter + 1
    /\ NextCell(stack')
    /\ stepCounter' = stepCounter + 1
    /\ trace' = Append(trace, "push")
    /\ UNCHANGED <<node, stackLive, popCounter, pc, result, rerun, prev>>
    /\ UNCHANGED file
    /\ pushed' = Append(pushed, Top(stack').square)
    /\ UNCHANGED clientVars
    /\ UNCHANGED <<formulaVars, gameVars, memVars, callVars>>

\* A backtrack that does not count its pop.
Backtrack_Uncounted ==
    /\ pc = "SEARCHING"
    /\ row # -1 /\ col # -1
    /\ stepCounter <= StepLimit
    /\ firstCandidate(newNode, row, col) = 0
    /\ ~isEmpty(popStack(stack))
    /\ stack' = [popStack(stack) EXCEPT
                    !.nodes[1] = markTried(Top(popStack(stack)), popNode(stack))]
    /\ NextCell(stack')
    /\ stepCounter' = stepCounter + 1
    /\ trace' = Append(trace, "pop")
    /\ UNCHANGED <<node, stackLive, pushCounter, popCounter, pc, result, rerun, prev>>
    /\ UNCHANGED file
    /\ UNCHANGED pushed
    /\ UNCHANGED clientVars
    /\ UNCHANGED <<formulaVars, gameVars, memVars, callVars>>

\* A backtrack that ends the search although frames are left on the stack.
Backtrack_GivesUp ==
    /\ pc = "SEARCHING"
    /\ row # -1 /\ col # -1
    /\ stepCounter <= StepLimit
    /\ firstCandidate(newNode, row, col) = 0
    /\ ~isEmpty(popStack(stack))
    /\ stack' = [popStack(stack) EXCEPT
                    !.nodes[1] = markTried(Top(popStack(stack)), popNode(stack))]
    /\ popCounter' = popCounter + 1
    /\ newNode' = NoNode
    /\ pc' = "UNSOLVABLE"
    /\ trace' = Append(trace, "pop")
    /\ UNCHANGED <<node, stackLive, row, col, pushCounter, stepCounter, result,
                   rerun, prev>>
    /\ UNCHANGED file
    /\ UNCHANGED pushed
    /\ UNCHANGED clientVars
    /\ UNCHANGED <<formulaVars, gameVars, memVars, callVars>>

\* A step that backtracks: no value can be placed, the top is popped and the
\* value it had placed is marked tried on the new top.
Backtrack ==
    /\ pc = "SEARCHING"
    /\ row # -1 /\ col # -1
    /\ stepCounter <= StepLimit
    /\ firstCandidate(newNode, row, col) = 0
    /\ ~isEmpty(popStack(stack))
    /\ stack' = [popStack(stack) EXCEPT
                    !.nodes[1] = markTried(Top(popStack(stack)), popNode(stack))]
    /\ popCounter' = popCounter + 1
    /\ NextCell(stack')
    /\ stepCounter' = stepCounter + 1
    /\ trace' = Append(trace, "pop")
    /\ UNCHANGED <<node, stackLive, pushCounter, pc, result, rerun, prev>>
    /\ UNCHANGED file
    /\ UNCHANGED pushed
    /\ UNCHANGED clientVars
    /\ UNCHANGED <<formulaVars, gameVars, memVars, callVars>>

\* A step whose pop empties the stack: the popped Node and the working copy
\* are released and the search ends.
Unsolvable ==
    /\ pc = "SEARCHING"
    /\ row # -1 /\ col # -1
    /\ firstCandidate(newNode, row, col) = 0
    /\ isEmpty(popStack(stack))
    /\ stack' = popStack(stack)
    /\ newNode' = NoNode
    /\ pc' = "UNSOLVABLE"
    /\ trace' = Append(trace, "pop")
    /\ UNCHANGED <<node, stackLive, row, col, pushCounter, popCounter,
                   stepCounter, result, rerun, prev>>
    /\ UNCHANGED file
    /\ UNCHANGED pushed
    /\ UNCHANGED clientVars
    /\ UNCHANGED <<formulaVars, gameVars, memVars, callVars>>

\* The loop ends: no empty cell was found.
LoopExit ==
    /\ pc = "SEARCHING"
    /\ ~(row # -1 /\ col # -1)
    /\ pc' = "SOLVED"
    /\ UNCHANGED <<node, stack, stackLive, newNode, row, col, pushCounter,
                   popCounter, stepCounter, result, rerun, trace, prev>>
    /\ UNCHANGED file
    /\ UNCHANGED pushed
    /\ UNCHANGED clientVars
    /\ UNCHANGED <<formulaVars, gameVars, memVars, callVars>>

\* After the loop: the working copy and the whole stack are released, true
\* is returned.
ReturnTrue ==
    /\ pc = "SOLVED"
    /\ newNode' = NoNode
    /\ stack' = [stack EXCEPT !.nodes = <<>>]
    /\ stackLive' = FALSE
    /\ result' = TRUE
    /\ pc' = "returned"
    /\ UNCHANGED <<node, row, col, pushCounter, popCounter, stepCounter, rerun,
                   trace, prev>>
    /\ UNCHANGED file
    /\ pushed' = <<>>
    /\ UNCHANGED clientVars
    /\ UNCHANGED <<formulaVars, gameVars, memVars, callVars>>

\* The unsolvable branch returns false.
ReturnFalse ==
    /\ pc = "UNSOLVABLE"
    /\ result' = FALSE
    /\ pc' = "returned"
    /\ UNCHANGED <<node, stack, stackLive, newNode, row, col, pushCounter,
                   popCounter, stepCounter, rerun, trace, prev>>
    /\ UNCHANGED file
    /\ pushed' = <<>>
    /\ UNCHANGED clientVars
    /\ UNCHANGED <<formulaVars, gameVars, memVars, callVars>>

\* main after the call: the stack structure is released when the solve
\* failed, then the Node read from the file.
MainExit ==
    /\ pc = "returned"
    /\ stackLive' = IF ~result THEN FALSE ELSE stackLive
    /\ node' = NoNode
    /\ pc' = "exit"
    /\ UNCHANGED <<stack, newNode, row, col, pushCounter, popCounter,
                   stepCounter, result, rerun, trace, prev>>
    /\ UNCHANGED file
    /\ UNCHANGED pushed
    /\ UNCHANGED clientVars
    /\ UNCHANGED <<formulaVars, gameVars, memVars, callVars>>

\* The grid with every cell made a clue.
AsClues(g, n) == [i \in Idx(n) |-> [j \in Idx(n) |-> -abs(g[i][j])]]

\* A second run of the program, on the solved grid of the first with every
\* cell given as a clue.
Rerun ==
    /\ pc = "SOLVED"
    /\ ~rerun
    /\ LET n == readLatinNode(node.size, AsClues(Top(stack).square, node.size)) IN
        /\ node' = n
        /\ stack' = push(initStack, n)
    /\ stackLive' = TRUE
    /\ newNode' = NoNode
    /\ row' = -1
    /\ col' = -1
    /\ pushCounter' = 0
    /\ popCounter' = 0
    /\ stepCounter' = 0
    /\ pc' = "call"
    /\ result' = FALSE
    /\ rerun' = TRUE
    /\ trace' = <<>>
    /\ prev' = NoRun
    /\ UNCHANGED file
    /\ UNCHANGED pushed
    /\ UNCHANGED clientVars
    /\ UNCHANGED <<formulaVars, gameVars, memVars, callVars>>

Next ==
    \/ Load
    \/ Enter
    \/ Place
    \/ Backtrack
    \/ Unsolvable
    \/ LoopExit
    \/ ReturnTrue
    \/ ReturnFalse
    \/ MainExit
    \/ Rerun

Spec == Init /\ [][Next]_vars

\* The steps of solveLatinSquare and of main after it. The program is a
\* single sequential thread: once the input is loaded, a step that can be
\* taken is taken.
Run ==
    \/ Enter
    \/ Place
    \/ Backtrack
    \/ Unsolvable
    \/ LoopExit
    \/ ReturnTrue
    \/ ReturnFalse
    \/ MainExit

LiveSpec == Init /\ [][Next]_vars /\ WF_vars(Run)

\* The test program of the solver: a square of size RowSize is built, pushed
\* on a new stack and solved; here with one row left empty.
LoadRows ==
    /\ pc = "start"
    /\ \E g \in OneRowOpen(RowSize) :
        /\ node' = readLatinNode(RowSize, g)
        /\ stack' = push(initStack, readLatinNode(RowSize, g))
    /\ stackLive' = TRUE
    /\ pc' = "call"
    /\ UNCHANGED <<newNode, row, col, pushCounter, popCounter, stepCounter,
                   result, rerun, trace, prev>>
    /\ UNCHANGED file
    /\ UNCHANGED pushed
    /\ UNCHANGED clientVars
    /\ UNCHANGED <<formulaVars, gameVars, memVars, callVars>>

RowNext == Next \/ LoadRows

RowSpec == Init /\ [][RowNext]_vars

\* The grid whose rows are the tuples given.
FromRows(rows) ==
    [i \in Idx(Len(rows)) |-> [j \in Idx(Len(rows)) |-> rows[i + 1][j + 1]]]

\* Input files of size 4 without a repeated value in a row or a column: two
\* with few cells given near the end, one of them with clues, and the
\* blocked grids, which have no completion.
DeepGrids ==
    { FromRows(<< <<0, 0, 0, 0>>, <<0, 0, 0, 0>>, <<0, 0, 0, 1>>, <<0, 4, 3, 0>> >>),
      FromRows(<< <<0, 0, 0, 0>>, <<0, 0, 0, 4>>, <<3, 2, 0, 0>>, <<0, -4, 1, 2>> >>),
      FromRows(<< <<0, 0, 0, -4>>, <<0, 0, 0, 0>>, <<0, 0, 0, 0>>, <<-1, -2, -3, 0>> >>),
      FromRows(<< <<0, 0, 0, 0>>, <<0, 0, 0, -4>>, <<0, 0, 0, 0>>, <<-1, -2, -3, 0>> >>) }

\* main up to the call, the input file holding one of these grids.
LoadDeep ==
    /\ pc = "start"
    /\ \E g \in DeepGrids :
        /\ node' = readLatinNode(Cardinality(DOMAIN g), g)
        /\ stack' = push(initStack, readLatinNode(Cardinality(DOMAIN g), g))
    /\ stackLive' = TRUE
    /\ pc' = "call"
    /\ UNCHANGED <<newNode, row, col, pushCounter, popCounter, stepCounter,
                   result, rerun, trace, prev>>
    /\ UNCHANGED file
    /\ UNCHANGED pushed
    /\ UNCHANGED clientVars
    /\ UNCHANGED <<formulaVars, gameVars, memVars, callVars>>

DeepNext == Next \/ LoadDeep

DeepSpec == Init /\ [][DeepNext]_vars

\* main up to the call of solveLatinSquare, on any file: readLatinNode exits
\* or hands back a Node, possibly NULL; initStack; push, which fails on a
\* NULL Node and leaves the stack empty; solveLatinSquare then reads
\* stack->top->size, through a NULL top a fault.
Read ==
    /\ pc = "start"
    /\ \E toks \in Files, conv \in {"low bits", "nearest"}, zeroAlloc \in BOOLEAN :
        LET r == parseFile(toks, conv, zeroAlloc) IN
        /\ file' = [read |-> TRUE, toks |-> toks]
        /\ IF r.outcome = "rejected"
           THEN /\ pc' = "rejected"
                /\ UNCHANGED <<node, stack, stackLive>>
           ELSE IF r.node = NoNode
           THEN /\ pc' = "fault"
                /\ stackLive' = TRUE
                /\ UNCHANGED <<node, stack>>
           ELSE /\ node' = r.node
                /\ stack' = push(initStack, r.node)
                /\ stackLive' = TRUE
                /\ pc' = "call"
    /\ UNCHANGED <<newNode, row, col, pushCounter, popCounter, stepCounter,
                   result, rerun, trace, prev>>
    /\ UNCHANGED pushed
    /\ UNCHANGED clientVars
    /\ UNCHANGED <<formulaVars, gameVars, memVars, callVars>>

\* The program on any file.
ReadNext == Read \/ Run

ReadSpec == Init /\ [][ReadNext]_vars

\* The program is run again on the input file of a run whose search has
\* ended; what that run did is kept for comparison.
Again ==
    /\ pc \in {"SOLVED", "UNSOLVABLE"}
    /\ prev = NoRun
    /\ prev' = [trace   |-> trace,
                outcome |-> pc,
                pushes  |-> pushCounter,
                pops    |-> popCounter,
                grid    |-> IF pc = "SOLVED" THEN Top(stack).square ELSE <<>>]
    /\ stack' = push(initStack, readLatinNode(node.size, node.square))
    /\ stackLive' = TRUE
    /\ newNode' = NoNode
    /\ row' = -1
    /\ col' = -1
    /\ pushCounter' = 0
    /\ popCounter' = 0
    /\ stepCounter' = 0
    /\ pc' = "call"
    /\ result' = FALSE
    /\ trace' = <<>>
    /\ UNCHANGED <<node, rerun>>
    /\ UNCHANGED file
    /\ UNCHANGED pushed
    /\ UNCHANGED clientVars
    /\ UNCHANGED <<formulaVars, gameVars, memVars, callVars>>

\* The program run once or twice on each input.
TwiceNext == Next \/ Again

TwiceSpec == Init /\ [][TwiceNext]_vars

-----------------------------------------------------------------------------
(* A client of the stack *)

\* The data the client fills in for its Node number i: cell (r, c) holds
\* i + r + c.
Data(i) == [r \in Idx(TestSize) |-> [c \in Idx(TestSize) |-> i + r + c]]

\* The Node at p is as the client built it: nothing was changed since.
AsBuilt(h, p) ==
    \E i \in {0, 1} : Deref(h, p) = readLatinNode(TestSize, Data(i))

\* The result of the last push or pop is not kept past the next operation.
Forget ==
    /\ ret' = NoNode
    /\ rc' = "none"
    /\ op' = "none"

\* The client builds a Node, its first or its second: initNode, then the
\* cells are filled in.
NewNode ==
    /\ caller = Null
    /\ \E i \in {0, 1} :
        LET b == initNodeAt(heap, TestSize, Data(i)) IN
        /\ heap' = b.heap
        /\ caller' = b.ptr
    /\ Forget
    /\ UNCHANGED <<hstack, hist>>
    /\ UNCHANGED solverVars
    /\ UNCHANGED <<formulaVars, gameVars, memVars, callVars>>

\* The client changes the Node it built: updateNode on a cell of the
\* anti-diagonal.
Update ==
    /\ caller # Null
    /\ AsBuilt(heap, caller)
    /\ \E k \in Idx(TestSize) :
        heap' = updateNodeAt(heap, caller, k, TestSize - 1 - k, -(k + 1))
    /\ Forget
    /\ UNCHANGED <<hstack, caller, hist>>
    /\ UNCHANGED solverVars
    /\ UNCHANGED <<formulaVars, gameVars, memVars, callVars>>

\* The client clears the last candidate flag of the Node it built.
Mark ==
    /\ caller # Null
    /\ AsBuilt(heap, caller)
    /\ heap' = [heap EXCEPT ![heap[caller].moves].at[TestSize - 1] = 0]
    /\ Forget
    /\ UNCHANGED <<hstack, caller, hist>>
    /\ UNCHANGED solverVars
    /\ UNCHANGED <<formulaVars, gameVars, memVars, callVars>>

\* The client pushes its Node (or NULL when it has none).
Push ==
    /\ hstack.size < MaxDepth
    /\ LET r == pushAt(heap, hstack, caller) IN
        /\ heap' = r.heap
        /\ hstack' = r.stack
        /\ rc' = r.rc
        /\ hist' = IF r.rc = "EXIT_SUCCESS"
                      THEN Append(hist, Deref(heap, caller)) ELSE hist
    /\ op' = "push"
    /\ ret' = NoNode
    /\ UNCHANGED caller
    /\ UNCHANGED solverVars
    /\ UNCHANGED <<formulaVars, gameVars, memVars, callVars>>

\* The client releases its Node.
Release ==
    /\ caller # Null
    /\ heap' = freeNodeAt(heap, caller)
    /\ caller' = Null
    /\ Forget
    /\ UNCHANGED <<hstack, hist>>
    /\ UNCHANGED solverVars
    /\ UNCHANGED <<formulaVars, gameVars, memVars, callVars>>

\* The client pops into a newly allocated retNode, keeps what it got and
\* releases retNode.
Pop ==
    /\ LET retNode == malloc(heap)
            r == popAt(setCell(heap, retNode, PtrCell(<<>>)), hstack, retNode)
        IN
        /\ hstack' = r.stack
        /\ rc' = r.rc
        /\ ret' = IF r.rc = "EXIT_SUCCESS" THEN Deref(r.heap, retNode) ELSE NoNode
        /\ heap' = IF r.rc = "EXIT_SUCCESS" THEN freeNodeAt(r.heap, retNode)
                      ELSE [r.heap EXCEPT ![retNode] = FreeCell]
        /\ hist' = IF r.rc = "EXIT_SUCCESS" THEN SubSeq(hist, 1, Len(hist) - 1)
                      ELSE hist
    /\ op' = "pop"
    /\ UNCHANGED caller
    /\ UNCHANGED solverVars
    /\ UNCHANGED <<formulaVars, gameVars, memVars, callVars>>

StackNext ==
    \/ NewNode
    \/ Update
    \/ Mark
    \/ Push
    \/ Release
    \/ Pop

StackSpec == Init /\ [][StackNext]_vars

\* The client pushes its Node when no storage is left for the copy.
PushNoStorage ==
    /\ caller # Null
    /\ rc # "fault"
    /\ hstack.size < MaxDepth
    /\ LET r == pushAtNoStorage(heap, hstack, caller) IN
        /\ heap' = r.heap
        /\ hstack' = r.stack
        /\ rc' = r.rc
    /\ op' = "push without storage"
    /\ ret' = NoNode
    /\ UNCHANGED <<caller, hist>>
    /\ UNCHANGED solverVars
    /\ UNCHANGED <<formulaVars, gameVars, memVars, callVars>>

\* The client pops from a stack that counts a frame and has a NULL top: pop
\* reads temp->next through the NULL pointer.
PopNoTop ==
    /\ rc # "fault"
    /\ hstack.size > 0
    /\ hstack.top = Null
    /\ rc' = "fault"
    /\ op' = "pop"
    /\ ret' = NoNode
    /\ UNCHANGED <<heap, hstack, caller, hist>>
    /\ UNCHANGED solverVars
    /\ UNCHANGED <<formulaVars, gameVars, memVars, callVars>>

\* No access through NULL has ended the client.
Alive == rc # "fault"

\* The client of the stack when storage can run out during a push.
StorageNext ==
    \/ Alive /\ NewNode
    \/ Alive /\ Update
    \/ Alive /\ Mark
    \/ Alive /\ Push
    \/ Alive /\ Release
    \/ Alive /\ (hstack.size = 0 \/ hstack.top # Null) /\ Pop
    \/ PushNoStorage
    \/ PopNoTop

StorageSpec == Init /\ [][StorageNext]_vars

-----------------------------------------------------------------------------
(* isValidParentheses (src/ChemicalFormulaExpander) *)

\* char line[256]: the size of the buffer that fgets fills.
LineSize == 256

\* Longest line, in characters, of the files made of short lines.
MaxLen == 2
\* Largest number of lines of those files.
MaxLines == 2

\* The characters of a line: the two parentheses, and "H" for any other
\* character; "\n" ends a line.
Chars == {"(", ")", "H"}

\* initStack of the STACK of ints: top = NULL, size = 0.
initIntStack == [top |-> <<>>, size |-> 0]

\* isEmptyStack: size is 0 or top is NULL.
isEmptyStack(s) == s.size = 0 \/ s.top = <<>>

\* push of an int: a new NODE becomes the top, size is incremented.
pushInt(s, val) == [top |-> <<val>> \o s.top, size |-> s.size + 1]

\* pop of the STACK of ints: fails on an empty stack and leaves it; else the
\* top NODE is removed and size decremented.
popInt(s) ==
    IF isEmptyStack(s) THEN s
    ELSE [top |-> Tail(s.top), size |-> s.size - 1]

\* The while loop that pops until the stack is empty.
RECURSIVE popAll(_)
popAll(s) == IF isEmptyStack(s) THEN s ELSE popAll(popInt(s))

\* The number of characters fgets(line, n, fp) reads from the characters s:
\* up to and including the first newline, at most n - 1.
fgetsLen(s, n) ==
    LET stops == {i \in 1 .. Len(s) : s[i] = "\n"}
        upTo  == IF stops = {} THEN Len(s)
                 ELSE CHOOSE i \in stops : \A j \in stops : i <= j
    IN  IF upTo < n - 1 THEN upTo ELSE n - 1

\* The characters of a file whose lines are given, each ended by a newline.
RECURSIVE Stream(_)
Stream(lines) ==
    IF lines = <<>> THEN <<>>
    ELSE Head(lines) \o <<"\n">> \o Stream(Tail(lines))

\* n characters that are no parentheses.
Pad(n) == [i \in 1 .. n |-> "H"]

\* The lines of at most MaxLen characters.
ShortLines == UNION {[1 .. n -> Chars] : n \in 0 .. MaxLen}

\* Lines that fill the buffer or do not fit into it: a pair of parentheses
\* around LineSize - 3 characters (the line without its newline fills the
\* buffer), around LineSize characters, and after LineSize - 2 characters.
LongLines ==
    { <<"(">> \o Pad(LineSize - 3) \o <<")">>,
      <<"(">> \o Pad(LineSize) \o <<")">>,
      Pad(LineSize - 2) \o <<"(", ")">> }

\* The files: at most MaxLines short lines, or one long line.
ParenFiles ==
    UNION {[1 .. n -> ShortLines] : n \in 0 .. MaxLines}
    \cup {<<l>> : l \in LongLines}

\* The file is opened and the stack initialised.
Open ==
    /\ fpc = "start"
    /\ \E f \in ParenFiles :
        /\ text' = f
        /\ fp' = Stream(f)
    /\ flag' = TRUE
    /\ parens' = initIntStack
    /\ lineIndex' = 1
    /\ fpc' = "fgets"
    /\ UNCHANGED <<line, idx, isValidLine, reported>>
    /\ UNCHANGED <<solverVars, clientVars, gameVars, memVars, callVars>>

\* The file cannot be opened, or the stack not allocated: false is returned.
OpenFails ==
    /\ fpc = "start"
    /\ fpc' = "refused"
    /\ UNCHANGED <<text, fp, line, idx, parens, isValidLine, flag, lineIndex, reported>>
    /\ UNCHANGED <<solverVars, clientVars, gameVars, memVars, callVars>>

\* fgets reads the next buffer: isValidLine = true, k = 0.
Fgets ==
    /\ fpc = "fgets"
    /\ fp # <<>>
    /\ LET n == fgetsLen(fp, LineSize) IN
        /\ line' = SubSeq(fp, 1, n)
        /\ fp' = SubSeq(fp, n + 1, Len(fp))
    /\ isValidLine' = TRUE
    /\ idx' = 0
    /\ fpc' = "scan"
    /\ UNCHANGED <<text, parens, flag, lineIndex, reported>>
    /\ UNCHANGED <<solverVars, clientVars, gameVars, memVars, callVars>>

\* One round of the for loop over the buffer: '(' is pushed, ')' pops when
\* the stack is not empty and else makes the line invalid.
Scan ==
    /\ fpc = "scan"
    /\ idx < Len(line)
    /\ LET ch == line[idx + 1] IN
        /\ parens' = IF ch = "(" THEN pushInt(parens, 1)
                      ELSE IF ch = ")" /\ ~isEmptyStack(parens) THEN popInt(parens)
                      ELSE parens
        /\ isValidLine' = IF ch = ")" /\ isEmptyStack(parens) THEN FALSE
                           ELSE isValidLine
    /\ idx' = idx + 1
    /\ UNCHANGED <<text, fp, line, flag, lineIndex, reported, fpc>>
    /\ UNCHANGED <<solverVars, clientVars, gameVars, memVars, callVars>>

\* After the for loop: a stack that is not empty or an invalid line is
\* reported and clears flag; the stack is emptied, lineIndex incremented.
EndLine ==
    /\ fpc = "scan"
    /\ idx >= Len(line)
    /\ IF ~isEmptyStack(parens) \/ ~isValidLine
       THEN /\ reported' = reported \cup {lineIndex}
            /\ flag' = FALSE
       ELSE UNCHANGED <<reported, flag>>
    /\ parens' = popAll(parens)
    /\ lineIndex' = lineIndex + 1
    /\ fpc' = "fgets"
    /\ UNCHANGED <<text, fp, line, idx, isValidLine>>
    /\ UNCHANGED <<solverVars, clientVars, gameVars, memVars, callVars>>

\* fgets returns NULL: flag is returned.
ReturnFlag ==
    /\ fpc = "fgets"
    /\ fp = <<>>
    /\ fpc' = "returned"
    /\ UNCHANGED <<text, fp, line, idx, parens, isValidLine, flag, lineIndex, reported>>
    /\ UNCHANGED <<solverVars, clientVars, gameVars, memVars, callVars>>

ParenNext ==
    \/ Open
    \/ OpenFails
    \/ Fgets
    \/ Scan
    \/ EndLine
    \/ ReturnFlag

ParenSpec == Init /\ [][ParenNext]_vars

-----------------------------------------------------------------------------
(* The interactive game (src/LatinSquareGame) *)

\* #define N 9: the largest size of a square.
N == 9

\* Largest size of the squares the game is played on.
GameSize == 2

\* checkInCol: num is not 0 and occurs, by absolute value, in column c.
checkInCol(sq, n, c, num) ==
    \E k \in Idx(n) : abs(sq[k][c]) = num /\ num # 0

\* A row check that compares the cells as stored, so that it misses the
\* clues.
checkInRow_AsStored(sq, n, r, num) ==
    \E k \in Idx(n) : sq[r][k] = num /\ num # 0

\* checkInRow: num is not 0 and occurs, by absolute value, in row r.
checkInRow(sq, n, r, num) ==
    \E k \in Idx(n) : abs(sq[r][k]) = num /\ num # 0

\* A test of a move that lets clue cells be written.
isValidMove_NoClueTest(sq, n, r, c, num) ==
    IF r < 0 \/ r >= n \/ c < 0 \/ c >= n THEN "bounds"
    ELSE IF num > n \/ num < 0 THEN "value"
    ELSE IF checkInRow(sq, n, r, num) THEN "row"
    ELSE IF checkInCol(sq, n, c, num) THEN "column"
    ELSE "ok"

\* isValidMove: "ok" for true; for false the test that failed: the index
\* is out of bounds, the cell is a clue, the value is outside [0, size], the
\* value exists in the row, or in the column.
isValidMove(sq, n, r, c, num) ==
    IF r < 0 \/ r >= n \/ c < 0 \/ c >= n THEN "bounds"
    ELSE IF sq[r][c] < 0 THEN "clue"
    ELSE IF num > n \/ num < 0 THEN "value"
    ELSE IF checkInRow(sq, n, r, num) THEN "row"
    ELSE IF checkInCol(sq, n, c, num) THEN "column"
    ELSE "ok"

\* isSolvedSquare: no cell is 0.
isSolvedSquare(sq, n) == \A k, i \in Idx(n) : sq[k][i] # 0

\* The squares of size n that files hold: every grid with cells in [-n, n]
\* for the sizes up to 2 (none has cells when n <= 0), the blocked grids for
\* the larger sizes.
GameGrids(n) ==
    IF n <= 0 THEN {[i \in Idx(n) |-> [j \in Idx(n) |-> 0]]}
    ELSE IF n <= 2 THEN AllGrids(n)
    ELSE BlockedGrids(n)

\* The numbers a player types for a row or a column of a square of size n:
\* 0 and n + 1 are out of bounds.
Typed(n) == 0 .. ((IF n < 0 THEN 0 ELSE n) + 1)

\* readLatinSquare: the size, at most N, and size * size cells, each within
\* [-size, size], are read into square.
ReadSquare ==
    /\ gpc = "start"
    /\ \E n \in -1 .. GameSize : \E g \in GameGrids(n) :
        /\ n <= N
        /\ gsize' = n
        /\ gsquare' = g
        /\ given' = g
    /\ gpc' = "play"
    /\ UNCHANGED said
    /\ UNCHANGED <<solverVars, clientVars, formulaVars, memVars, callVars>>

\* readLatinSquare exits: no file, no size, a size above N, a missing or an
\* illegal number.
ReadSquareFails ==
    /\ gpc = "start"
    /\ gpc' = "refused"
    /\ UNCHANGED <<gsquare, gsize, given, said>>
    /\ UNCHANGED <<solverVars, clientVars, formulaVars, memVars, callVars>>

\* The loop of main after a call of play that returned true: it ends when
\* the square is solved.
AfterPlay(sq) == IF isSolvedSquare(sq, gsize) THEN "over" ELSE "play"

\* play on a command that scanf cannot convert.
PlayWrongFormat ==
    /\ gpc = "play"
    /\ said' = "format"
    /\ gpc' = AfterPlay(gsquare)
    /\ UNCHANGED <<gsquare, gsize, given>>
    /\ UNCHANGED <<solverVars, clientVars, formulaVars, memVars, callVars>>

\* play on the command 0,0=0: false is returned and the loop ends.
PlayEnd ==
    /\ gpc = "play"
    /\ said' = "end"
    /\ gpc' = "over"
    /\ UNCHANGED <<gsquare, gsize, given>>
    /\ UNCHANGED <<solverVars, clientVars, formulaVars, memVars, callVars>>

\* play on the command i,j=val: row and col are decremented, and the value
\* is stored when isValidMove accepts the move.
PlayMove ==
    /\ gpc = "play"
    /\ \E i \in Typed(gsize), j \in Typed(gsize), val \in -1 .. (gsize + 1) :
        /\ ~(i = 0 /\ j = 0 /\ val = 0)
        /\ LET r == i - 1
               c == j - 1
               v == isValidMove(gsquare, gsize, r, c, val)
           IN
           /\ gsquare' = IF v = "ok" THEN [gsquare EXCEPT ![r][c] = val] ELSE gsquare
           /\ said' = IF v = "ok" THEN "inserted" ELSE v
    /\ gpc' = AfterPlay(gsquare')
    /\ UNCHANGED <<gsize, given>>
    /\ UNCHANGED <<solverVars, clientVars, formulaVars, memVars, callVars>>

\* main after the loop: the square is written to the output file.
Save ==
    /\ gpc = "over"
    /\ gpc' = "exit"
    /\ UNCHANGED <<gsquare, gsize, given, said>>
    /\ UNCHANGED <<solverVars, clientVars, formulaVars, memVars, callVars>>

GameNext ==
    \/ ReadSquare
    \/ ReadSquareFails
    \/ PlayWrongFormat
    \/ PlayEnd
    \/ PlayMove
    \/ Save

GameSpec == Init /\ [][GameNext]_vars

-----------------------------------------------------------------------------
(* main and solveLatinSquare on allocated storage *)

\* freeNode would release storage that is not allocated: the structure or
\* an array it points to is released already, or is reached twice.
freesTwice(h, p) ==
    /\ p # Null
    /\ \/ ~(p \in 1 .. Len(h) /\ h[p].kind = "node")
       \/ LET as == PtrsAt(h, h[p].square) \o <<h[p].square, h[p].moves, p>> IN
          \/ \E i \in 1 .. Len(as) : ~(as[i] \in 1 .. Len(h)) \/ h[as[i]] = FreeCell
          \/ \E i, j \in 1 .. Len(as) : i # j /\ as[i] = as[j]

\* freeNode(p) in the storage m = [heap, twice]: twice is set when the call
\* releases storage that is not allocated.
freeNodeIn(m, p) ==
    IF m.twice THEN m
    ELSE IF freesTwice(m.heap, p) THEN [m EXCEPT !.twice = TRUE]
    ELSE [m EXCEPT !.heap = freeNodeAt(m.heap, p)]

\* freeStack: the frames are released from the top down.
RECURSIVE freeStackIn(_, _)
freeStackIn(m, top) ==
    IF top = Null \/ m.twice THEN m
    ELSE freeStackIn(freeNodeIn(m, top),
                     IF top \in 1 .. Len(m.heap) /\ m.heap[top].kind = "node"
                        THEN m.heap[top].next ELSE Null)

\* The cell findNextEmptyCell finds in the working copy.
CellAt == findNextEmptyCell(Deref(heap, work))

\* The value the placement loop takes for that cell; 0 when it takes none.
CandidateAt == firstCandidate(Deref(heap, work), CellAt[1], CellAt[2])

\* main up to the call: the Node read from the file is allocated and pushed.
LoadAt ==
    /\ mpc = "start"
    /\ \E n \in 1 .. MaxSize : \E g \in Inputs(n) :
        LET a == initNodeAt(<<>>, n, g)
            p == pushAt(a.heap, initStackAt, a.ptr)
        IN  /\ heap' = p.heap
            /\ hstack' = p.stack
            /\ caller' = a.ptr
    /\ mpc' = "call"
    /\ UNCHANGED <<work, twice>>
    /\ UNCHANGED <<ret, rc, op, hist>>
    /\ UNCHANGED <<solverVars, formulaVars, gameVars, callVars>>

\* solveLatinSquare before its loop: the working copy is a clone of the top.
EnterAt ==
    /\ mpc = "call"
    /\ LET c == cloneNodeAt(heap, hstack.top) IN
        /\ heap' = c.heap
        /\ work' = c.ptr
    /\ mpc' = "SEARCHING"
    /\ UNCHANGED <<hstack, caller, twice>>
    /\ UNCHANGED <<ret, rc, op, hist>>
    /\ UNCHANGED <<solverVars, formulaVars, gameVars, callVars>>

\* A step that places a value: the working copy is updated and pushed, then
\* released and replaced by a clone of the new top.
PlaceAt ==
    /\ mpc = "SEARCHING"
    /\ CellAt[1] # -1 /\ CellAt[2] # -1
    /\ CandidateAt # 0
    /\ LET p == pushAt(updateNodeAt(heap, work, CellAt[1], CellAt[2], CandidateAt),
                       hstack, work)
           m == freeNodeIn([heap |-> p.heap, twice |-> twice], work)
           c == cloneNodeAt(m.heap, p.stack.top)
       IN  /\ hstack' = p.stack
           /\ twice' = m.twice
           /\ heap' = IF m.twice THEN m.heap ELSE c.heap
           /\ work' = IF m.twice THEN work ELSE c.ptr
           /\ mpc' = IF m.twice THEN "fault" ELSE mpc
    /\ UNCHANGED caller
    /\ UNCHANGED <<ret, rc, op, hist>>
    /\ UNCHANGED <<solverVars, formulaVars, gameVars, callVars>>

\* The backtrack branch up to the test of isEmpty: retNode is allocated and
\* pop fills it from the top, which it releases.
PoppedAt ==
    LET retNode == malloc(heap) IN
    [retNode |-> retNode,
     pop     |-> popAt(setCell(heap, retNode, PtrCell(<<>>)), hstack, retNode)]

\* A step that backtracks: the value the popped Node had placed is marked
\* tried on the new top, the popped Node and the working copy are released,
\* the working copy is replaced by a clone of the top.
BacktrackAt ==
    /\ mpc = "SEARCHING"
    /\ CellAt[1] # -1 /\ CellAt[2] # -1
    /\ CandidateAt = 0
    /\ PoppedAt.pop.stack.size # 0
    /\ LET r   == PoppedAt.retNode
           p   == PoppedAt.pop
           v   == Deref(p.heap, r)
           indexToChange == v.square[v.row][v.col] - 1
           top == p.stack.top
           h1  == [p.heap EXCEPT ![p.heap[top].moves].at[indexToChange] = 0]
           m   == freeNodeIn(freeNodeIn([heap |-> h1, twice |-> twice], r), work)
           c   == cloneNodeAt(m.heap, top)
       IN  /\ hstack' = p.stack
           /\ twice' = m.twice
           /\ heap' = IF m.twice THEN m.heap ELSE c.heap
           /\ work' = IF m.twice THEN work ELSE c.ptr
           /\ mpc' = IF m.twice THEN "fault" ELSE mpc
    /\ UNCHANGED caller
    /\ UNCHANGED <<ret, rc, op, hist>>
    /\ UNCHANGED <<solverVars, formulaVars, gameVars, callVars>>

\* A step whose pop empties the stack: the popped Node and the working copy
\* are released and false is returned.
UnsolvableAt ==
    /\ mpc = "SEARCHING"
    /\ CellAt[1] # -1 /\ CellAt[2] # -1
    /\ CandidateAt = 0
    /\ PoppedAt.pop.stack.size = 0
    /\ LET m == freeNodeIn(freeNodeIn([heap |-> PoppedAt.pop.heap, twice |-> twice],
                                      PoppedAt.retNode), work)
       IN  /\ hstack' = PoppedAt.pop.stack
           /\ twice' = m.twice
           /\ heap' = m.heap
           /\ mpc' = IF m.twice THEN "fault" ELSE "returned false"
    /\ UNCHANGED <<caller, work>>
    /\ UNCHANGED <<ret, rc, op, hist>>
    /\ UNCHANGED <<solverVars, formulaVars, gameVars, callVars>>

\* No empty cell is left: the working copy and the frames of the stack are
\* released and true is returned.
SolvedAt ==
    /\ mpc = "SEARCHING"
    /\ ~(CellAt[1] # -1 /\ CellAt[2] # -1)
    /\ LET m == freeStackIn(freeNodeIn([heap |-> heap, twice |-> twice], work),
                            hstack.top)
       IN  /\ twice' = m.twice
           /\ heap' = m.heap
           /\ mpc' = IF m.twice THEN "fault" ELSE "returned true"
    /\ hstack' = [hstack EXCEPT !.top = Null]
    /\ UNCHANGED <<caller, work>>
    /\ UNCHANGED <<ret, rc, op, hist>>
    /\ UNCHANGED <<solverVars, formulaVars, gameVars, callVars>>

\* main after the call: the Node read from the file is released.
MainExitAt ==
    /\ mpc \in {"returned true", "returned false"}
    /\ LET m == freeNodeIn([heap |-> heap, twice |-> twice], caller) IN
        /\ twice' = m.twice
        /\ heap' = m.heap
        /\ mpc' = IF m.twice THEN "fault" ELSE "exit"
    /\ UNCHANGED <<hstack, caller, work>>
    /\ UNCHANGED <<ret, rc, op, hist>>
    /\ UNCHANGED <<solverVars, formulaVars, gameVars, callVars>>

MemNext ==
    \/ LoadAt
    \/ EnterAt
    \/ PlaceAt
    \/ BacktrackAt
    \/ UnsolvableAt
    \/ SolvedAt
    \/ MainExitAt

\* The program run with its Nodes and frames on allocated storage.
MemSpec == Init /\ [][MemNext]_vars

-----------------------------------------------------------------------------
(* checkDuplicates and updateNode called on a Node *)

\* A Node as a solve can hold it: a grid (every grid for the sizes 1 and 2,
\* the row grids for the larger sizes), the cursor at the first or the last
\* cell, any candidate flags.
Nodes(n) ==
    { [readLatinNode(n, g) EXCEPT !.row = p[1], !.col = p[2], !.moves = m]
      : g \in (IF n <= 2 THEN AllGrids(n) ELSE RowGrids(n)),
        p \in {<<0, 0>>, <<n - 1, n - 1>>},
        m \in [Idx(n) -> {0, 1}] }

\* checkDuplicates(node, num, row, col) is called on a Node of an input file.
CallCheckDuplicates ==
    /\ call.fn = "none"
    /\ \E n \in 1 .. MaxSize : \E g \in Inputs(n) :
       \E num \in (-1) .. (n + 1) : \E r, c \in Idx(n) :
        /\ call' = [fn |-> "checkDuplicates", node |-> readLatinNode(n, g),
                    num |-> num, row |-> r, col |-> c]
        /\ out' = checkDuplicates(readLatinNode(n, g), num, r, c)
    /\ UNCHANGED <<solverVars, clientVars, formulaVars, gameVars, memVars>>

\* updateNode(node, row, col, num) is called on a Node, num any int near the
\* range of the values.
CallUpdateNode ==
    /\ call.fn = "none"
    /\ \E n \in 1 .. TestSize : \E v \in Nodes(n) :
       \E num \in (-(n + 2)) .. (n + 2) : \E r, c \in Idx(n) :
        /\ call' = [fn |-> "updateNode", node |-> v,
                    num |-> num, row |-> r, col |-> c]
        /\ out' = updateNode(v, r, c, num)
    /\ UNCHANGED <<solverVars, clientVars, formulaVars, gameVars, memVars>>

CallNext == CallCheckDuplicates \/ CallUpdateNode

\* One call of checkDuplicates or of updateNode.
CallSpec == Init /\ [][CallNext]_vars

-----------------------------------------------------------------------------
(* Properties *)

\* The Stack holds frames: solveLatinSquare is running or has just decided.
Solving == pc \in {"SEARCHING", "SOLVED", "UNSOLVABLE"}

\* Every row and every column holds each value 1..n exactly once, by
\* absolute value.
IsLatin(g, n) ==
    \A v \in 1 .. n : \A i \in Idx(n) :
        /\ Cardinality({j \in Idx(n) : abs(g[i][j]) = v}) = 1
        /\ Cardinality({j \in Idx(n) : abs(g[j][i]) = v}) = 1

\* No two non-zero cells of a row or of a column have the same magnitude.
DupFree(g, n) ==
    \A i \in Idx(n) : \A j, k \in Idx(n) :
        j # k =>
            /\ (g[i][j] # 0 => abs(g[i][j]) # abs(g[i][k]))
            /\ (g[j][i] # 0 => abs(g[j][i]) # abs(g[k][i]))

\* Two clues (negative cells) of a row or of a column have the same magnitude.
ClueConflict(g, n) ==
    \E i \in Idx(n) : \E j, k \in Idx(n) :
        /\ j # k
        /\ \/ (g[i][j] < 0 /\ g[i][j] = g[i][k])
           \/ (g[j][i] < 0 /\ g[j][i] = g[k][i])

\* The grid has a completion: values 1..n in its zero cells, the other
\* cells kept, no magnitude repeated in a row or a column.
RECURSIVE Completable(_, _)
Completable(g, n) ==
    IF ~DupFree(g, n) THEN FALSE
    ELSE LET Z == {c \in Cells(n) : g[c[1]][c[2]] = 0} IN
         IF Z = {} THEN TRUE
         ELSE LET c == CHOOSE z \in Z : TRUE IN
              \E v \in 1 .. n : Completable([g EXCEPT ![c[1]][c[2]] = v], n)

\* The grids of the Nodes that are allocated.
LiveGrids ==
    (IF node = NoNode THEN {} ELSE {node.square})
    \cup (IF newNode = NoNode THEN {} ELSE {newNode.square})
    \cup {stack.nodes[k].square : k \in 1 .. Len(stack.nodes)}

\* C1: on SOLVED, every row and every column of the top snapshot holds each
\* value 1..N exactly once, by absolute value.
C1_SolvedIsLatin ==
    pc = "SOLVED" => IsLatin(Top(stack).square, node.size)

\* C2: an input that has a duplicate-free completion is solved: from the
\* call on, solveLatinSquare comes to return true.
C2_SolvableIsSolved ==
    (pc = "call" /\ Completable(node.square, node.size)) ~> (pc = "returned" /\ result)

C2_Witness ==
    /\ pc = "returned" /\ result /\ ~rerun
    /\ Completable(node.square, node.size)
    /\ pushCounter > 0 /\ popCounter > 0

\* The completions of a grid: values 1..n in its zero cells, the other cells
\* kept, no magnitude repeated in a row or a column.
RECURSIVE Completions(_, _)
Completions(g, n) ==
    IF ~DupFree(g, n) THEN {}
    ELSE LET Z == {c \in Cells(n) : g[c[1]][c[2]] = 0} IN
         IF Z = {} THEN {g}
         ELSE LET c == CHOOSE z \in Z : TRUE IN
              UNION {Completions([g EXCEPT ![c[1]][c[2]] = v], n) : v \in 1 .. n}

\* Grid c keeps every non-zero cell of grid g.
Extends(c, g, n) ==
    \A p \in Cells(n) : g[p[1]][p[2]] # 0 => c[p[1]][p[2]] = g[p[1]][p[2]]

\* The search has passed over grid c: below some frame c agrees with the
\* frame under it and holds a smaller value at the cell that frame filled,
\* or c agrees with the top and holds at the next empty cell a value marked
\* tried there.
Skipped(c) ==
    \/ \E k \in 1 .. (Len(stack.nodes) - 1) :
          /\ Extends(c, stack.nodes[k + 1].square, node.size)
          /\ c[stack.nodes[k].row][stack.nodes[k].col]
                < stack.nodes[k].square[stack.nodes[k].row][stack.nodes[k].col]
    \/ /\ row # -1 /\ col # -1
       /\ Extends(c, Top(stack).square, node.size)
       /\ Top(stack).moves[c[row][col] - 1] = 0

\* C3: the search skips no valid completion: while SEARCHING no completion of
\* the input has been passed over, and on UNSOLVABLE the input has none.
C3_NoCompletionSkipped ==
    /\ pc = "SEARCHING" => \A c \in Completions(node.square, node.size) : ~Skipped(c)
    /\ pc = "UNSOLVABLE" => Completions(node.square, node.size) = {}

C3_Witness ==
    /\ pc = "UNSOLVABLE"
    /\ DupFree(node.square, node.size)
    /\ pushCounter > 1 /\ popCounter > 1

\* C4: every non-zero cell of the input keeps its value in every snapshot on
\* the stack and in the working copy, and a frame differs from the frame
\* below it only in cells that are 0 below.
C4_CluesKept ==
    Solving =>
        /\ \A k \in 1 .. Len(stack.nodes) : \A c \in Cells(node.size) :
              node.square[c[1]][c[2]] # 0 =>
                  stack.nodes[k].square[c[1]][c[2]] = node.square[c[1]][c[2]]
        /\ \A k \in 1 .. (Len(stack.nodes) - 1) : \A c \in Cells(node.size) :
              stack.nodes[k].square[c[1]][c[2]] # stack.nodes[k + 1].square[c[1]][c[2]] =>
                  stack.nodes[k + 1].square[c[1]][c[2]] = 0
        /\ newNode # NoNode =>
              \A c \in Cells(node.size) :
                  node.square[c[1]][c[2]] # 0 =>
                      newNode.square[c[1]][c[2]] = node.square[c[1]][c[2]]

C4_Witness ==
    /\ pc = "SOLVED" /\ ~rerun
    /\ pushCounter > 0 /\ popCounter > 0
    /\ \E c \in Cells(node.size) : node.square[c[1]][c[2]] < 0
    /\ \E c \in Cells(node.size) : node.square[c[1]][c[2]] > 0

\* C5: an input whose clues repeat a magnitude in a row or a column is never
\* reported SOLVED.
C5_ConflictNeverSolved ==
    pc = "SOLVED" => ~ClueConflict(node.square, node.size)

\* C6: the driver loop always leaves SEARCHING for SOLVED or UNSOLVABLE.
C6_Terminates ==
    (pc = "SEARCHING") ~> (pc \in {"SOLVED", "UNSOLVABLE"})

C6_Witness ==
    /\ pc \in {"SOLVED", "UNSOLVABLE"}
    /\ pushCounter > 2 /\ popCounter > 2

\* C7: on SOLVED, no cell of the top snapshot is 0.
C7_SolvedHasNoZero ==
    pc = "SOLVED" =>
        \A c \in Cells(node.size) : Top(stack).square[c[1]][c[2]] # 0

C7_Witness ==
    /\ pc = "SOLVED" /\ ~rerun
    /\ pushCounter > 1 /\ popCounter > 0
    /\ Top(stack).row > 0 /\ Top(stack).col > 0

\* C8: when solveLatinSquare returns from SOLVED, the completed grid is
\* still held by an allocated Node.
C8_SolutionCopiedOut ==
    [][(pc = "SOLVED" /\ pc' = "returned") => Top(stack).square \in LiveGrids']_vars

\* C9: an input without a zero cell is SOLVED with no push and no pop, the
\* stack holding exactly the initial frame.
C9_FullInputNoSteps ==
    (pc = "SOLVED" /\ Zeros(node.square, node.size) = 0) =>
        /\ pushCounter = 0
        /\ popCounter = 0
        /\ stepCounter = 1
        /\ stack.size = 1
        /\ Len(stack.nodes) = 1
        /\ Top(stack).square = node.square

C9_Witness ==
    /\ pc = "SOLVED" /\ ~rerun
    /\ Zeros(node.square, node.size) = 0

\* C10: the run on a solved grid with every cell a clue is never UNSOLVABLE
\* and, on SOLVED, its grid is the grid it was given.
C10_Idempotent ==
    rerun =>
        /\ pc # "UNSOLVABLE"
        /\ pc = "SOLVED" => Top(stack).square = node.square
        /\ pc = "returned" => result

C10_Witness ==
    /\ rerun
    /\ pc = "SOLVED"
    /\ Top(stack).square = node.square

\* Sequence s is an initial part of sequence t.
IsPrefix(s, t) == Len(s) <= Len(t) /\ SubSeq(t, 1, Len(s)) = s

\* The number of driver steps that can be taken.
EnabledSteps ==
    (IF ENABLED Place THEN 1 ELSE 0) + (IF ENABLED Backtrack THEN 1 ELSE 0)
    + (IF ENABLED Unsolvable THEN 1 ELSE 0) + (IF ENABLED LoopExit THEN 1 ELSE 0)

\* C11: a second run on the same input makes the same calls of push and pop
\* in the same order and ends with the same outcome, the same counts and the
\* same final grid as the first; while SEARCHING exactly one driver step can
\* be taken.
C11_Deterministic ==
    /\ pc = "SEARCHING" => EnabledSteps = 1
    /\ (prev # NoRun /\ pc = "SEARCHING") => IsPrefix(trace, prev.trace)
    /\ (prev # NoRun /\ pc \in {"SOLVED", "UNSOLVABLE"}) =>
          /\ trace = prev.trace
          /\ pc = prev.outcome
          /\ pushCounter = prev.pushes
          /\ popCounter = prev.pops
          /\ pc = "SOLVED" => Top(stack).square = prev.grid

C11_Witness ==
    /\ prev # NoRun
    /\ pc = "SOLVED"
    /\ pushCounter > 1 /\ popCounter > 1
    /\ trace = prev.trace
    /\ Top(stack).square = prev.grid

\* C12: on SOLVED the pushes minus the pops equal the number of zero cells
\* of the input, and the stack holds the initial frame and one frame for
\* each of them.
C12_StackBalance ==
    pc = "SOLVED" =>
        /\ pushCounter - popCounter = Zeros(node.square, node.size)
        /\ stack.size = 1 + Zeros(node.square, node.size)
        /\ Len(stack.nodes) = 1 + Zeros(node.square, node.size)
        /\ stack.nodes[Len(stack.nodes)].square = node.square

C12_Witness ==
    /\ pc = "SOLVED" /\ ~rerun
    /\ popCounter > 1
    /\ Zeros(node.square, node.size) > 2
    /\ stack.size = 1 + pushCounter - popCounter

\* The grid of size 2 with the rows [a, b] and [c, d].
Grid2(a, b, c, d) ==
    [i \in Idx(2) |-> [j \in Idx(2) |->
        IF i = 0 THEN (IF j = 0 THEN a ELSE b) ELSE (IF j = 0 THEN c ELSE d)]]

\* C13: the run on the size-2 input with the rows [1, 0] and [0, 1] is never
\* UNSOLVABLE, ends SOLVED after two pushes and no pop with the grid
\* [1, 2], [2, 1], and returns true.
C13_TwoByTwo ==
    (node # NoNode /\ node.square = Grid2(1, 0, 0, 1)) =>
        /\ pc # "UNSOLVABLE"
        /\ pc = "SOLVED" =>
              /\ Top(stack).square = Grid2(1, 2, 2, 1)
              /\ pushCounter = 2 /\ popCounter = 0
        /\ pc = "returned" => result

C13_Witness ==
    /\ pc = "SOLVED"
    /\ node.square = Grid2(1, 0, 0, 1)
    /\ Top(stack).square = Grid2(1, 2, 2, 1)

\* Row z of grid g is empty, every other row is filled, and no magnitude is
\* repeated in a row or a column.
OneEmptyRow(g, n, z) ==
    /\ \A j \in Idx(n) : g[z][j] = 0
    /\ \A i \in Idx(n) \ {z} : \A j \in Idx(n) : g[i][j] # 0
    /\ DupFree(g, n)

\* The value of 1..n that column j of grid g lacks (0 when it lacks several
\* or none).
Missing(g, n, j) ==
    LET M == {v \in 1 .. n : \A i \in Idx(n) : abs(g[i][j]) # v} IN
    IF Cardinality(M) = 1 THEN CHOOSE v \in M : TRUE ELSE 0

\* C14: a run on a size-4 input with one empty row and three filled rows
\* without a repeated magnitude is never UNSOLVABLE; on SOLVED the filled
\* rows are kept and each cell of the empty row holds the one value its
\* column lacked, the rows and columns of the result holding 1..4 once each.
C14_EmptyRowFilled ==
    \A z \in Idx(RowSize) :
        (node # NoNode /\ node.size = RowSize /\ OneEmptyRow(node.square, RowSize, z)) =>
            /\ pc # "UNSOLVABLE"
            /\ pc = "SOLVED" =>
                  /\ \A j \in Idx(RowSize) :
                        Top(stack).square[z][j] = Missing(node.square, RowSize, j)
                  /\ \A i \in Idx(RowSize) \ {z} :
                        Top(stack).square[i] = node.square[i]
                  /\ IsLatin(Top(stack).square, RowSize)
            /\ pc = "returned" => result

C14_Witness ==
    /\ pc = "SOLVED" /\ ~rerun
    /\ node.size = RowSize
    /\ OneEmptyRow(node.square, RowSize, 1)
    /\ node.square[0][0] < 0 /\ node.square[2][0] > 0
    /\ IsLatin(Top(stack).square, RowSize)
    /\ pushCounter = RowSize

\* The frames of the client's stack from the top down.
FramesOf(h, s) == FramesFrom(h, s.top, MaxDepth + 1)

\* The addresses of the frames of the client's stack from the top down.
RECURSIVE ChainFrom(_, _, _)
ChainFrom(h, p, k) ==
    IF p = Null \/ k = 0 THEN <<>>
    ELSE <<p>> \o ChainFrom(h, IF p \in 1 .. Len(h) /\ h[p].kind = "node"
                                  THEN h[p].next ELSE Null, k - 1)

\* The addresses of the storage of the Node at p: the structure, the
\* square, the rows and the moves.
Storage(h, p) ==
    IF p = Null THEN {}
    ELSE {p, h[p].square, h[p].moves}
         \cup {PtrsAt(h, h[p].square)[i] : i \in 1 .. Len(PtrsAt(h, h[p].square))}

\* The caller's Node and the frames of the stack have no address in common,
\* nor have two frames.
NoSharing ==
    LET chain == ChainFrom(heap, hstack.top, MaxDepth + 1) IN
    /\ \A k \in 1 .. Len(chain) :
          Storage(heap, caller) \cap Storage(heap, chain[k]) = {}
    /\ \A j, k \in 1 .. Len(chain) :
          j # k => Storage(heap, chain[j]) \cap Storage(heap, chain[k]) = {}

\* C15: a frame on the stack shares no storage with the caller's Node, and
\* a step that is no push or pop (the caller building, changing or releasing
\* its Node) leaves every frame on the stack as it was.
C15_PushCopies ==
    [][/\ NoSharing
       /\ (op' # "push" /\ op' # "pop") =>
              FramesOf(heap', hstack') = FramesOf(heap, hstack)]_vars

C15_Witness ==
    /\ Len(hist) = 2
    /\ caller = Null
    /\ op = "none"
    /\ FramesOf(heap, hstack)[1] = hist[2]
    /\ hist[2].moves[TestSize - 1] = 0
    /\ hist[1].row # hist[1].col

\* C16: pop on a stack without frames returns EXIT_FAILURE, hands back no
\* Node and leaves top and size as they were.
C16_PopOnEmptyFails ==
    [][(op' = "pop" /\ hstack.size = 0) =>
          /\ rc' = "EXIT_FAILURE"
          /\ ret' = NoNode
          /\ hstack' = hstack
          /\ hstack'.top = Null]_vars

C16_Witness ==
    /\ op = "pop"
    /\ rc = "EXIT_FAILURE"
    /\ hstack = initStackAt
    /\ caller # Null

\* C17: a pop that succeeds removes the top frame alone: the frames below
\* are as they were, in grid, cursor and moves, and size is one less.
C17_PopRemovesTop ==
    [][(op' = "pop" /\ rc' = "EXIT_SUCCESS") =>
          /\ FramesOf(heap', hstack') = Tail(FramesOf(heap, hstack))
          /\ hstack'.size = hstack.size - 1
          /\ Len(FramesOf(heap', hstack')) = hstack'.size]_vars

C17_Witness ==
    /\ op = "pop"
    /\ rc = "EXIT_SUCCESS"
    /\ hstack.size = 1
    /\ FramesOf(heap, hstack)[1].moves[TestSize - 1] = 0

\* The sequence s in reverse order.
Reverse(s) == [k \in 1 .. Len(s) |-> s[Len(s) + 1 - k]]

\* C18: the frames of the stack are, from the top down, the Nodes pushed and
\* not yet popped, the last pushed first; a pop that succeeds hands back the
\* last of them, equal in size, grid, cursor and moves.
C18_PushPopRoundTrip ==
    [][/\ FramesOf(heap, hstack) = Reverse(hist)
       /\ (op' = "pop" /\ rc' = "EXIT_SUCCESS") =>
              /\ ret' = hist[Len(hist)]
              /\ hist' = SubSeq(hist, 1, Len(hist) - 1)]_vars

C18_Witness ==
    /\ op = "pop"
    /\ rc = "EXIT_SUCCESS"
    /\ hstack.size = 0
    /\ ret.row # ret.col
    /\ ret.square[ret.row][ret.col] < 0

\* The token is a number outside [-n, n].
Outside(tok, n) == tok.num /\ (tok.hi # 0 \/ tok.lo < -n \/ tok.lo > n)

\* The file gives a size N >= 1 and then a cell value outside [-N, N], fewer
\* than N * N cell values, or a further value after the N * N cells.
BadCells(toks) ==
    /\ scans(toks, 1)
    /\ toks[1].hi = 0
    /\ toks[1].lo >= 1
    /\ LET n == toks[1].lo IN
       \/ \E k \in 2 .. (n * n + 1) : k <= Len(toks) /\ Outside(toks[k], n)
       \/ Len(toks) - 1 < n * n
       \/ \E k \in (n * n + 2) .. Len(toks) : toks[k].num

\* C19: a file with a cell value outside [-N, N], with fewer than N * N cell
\* values or with a further value after the cells is rejected: nothing is
\* pushed and no step of the search is made.
C19_BadCellsRejected ==
    (file.read /\ BadCells(file.toks)) =>
        /\ pc = "rejected"
        /\ stack = initStack
        /\ stepCounter = 0

\* C20: a file whose size is zero or negative is rejected: it is not handed
\* to solveLatinSquare and not reported SOLVED.
C20_BadSizeRejected ==
    (file.read /\ scans(file.toks, 1) /\ file.toks[1].hi = 0 /\ file.toks[1].lo <= 0) =>
        pc = "rejected"

\* C21: a push whose copy of the Node found no storage returns EXIT_FAILURE
\* and leaves top and size of the stack as they were.
C21_PushWithoutStorageFails ==
    [][op' = "push without storage" =>
          /\ rc' = "EXIT_FAILURE"
          /\ hstack' = hstack]_vars

\* The number of characters c among the first i of a line.
CountOf(l, c, i) == Cardinality({j \in 1 .. i : l[j] = c})

\* A line is balanced: no ')' without an earlier unmatched '(' (no prefix
\* holds more ')' than '('), and no '(' unmatched at its end.
Balanced(l) ==
    /\ \A i \in 1 .. Len(l) : CountOf(l, ")", i) <= CountOf(l, "(", i)
    /\ CountOf(l, ")", Len(l)) = CountOf(l, "(", Len(l))

\* C22: isValidParentheses returns true exactly when every line of the file
\* is balanced, and the lines it reports are the lines that are not, each
\* judged by its own parentheses.
C22_BalancedLines ==
    fpc = "returned" =>
        /\ flag = (\A i \in 1 .. Len(text) : Balanced(text[i]))
        /\ reported = {i \in 1 .. Len(text) : ~Balanced(text[i])}


\* The messages of isValidMove when it rejects a move.
Rejections == {"bounds", "clue", "value", "row", "column"}

\* C23: a call of play leaves every cell that was negative in the loaded
\* square as it was loaded, and a command that isValidMove rejects leaves
\* the whole square as it was.
C23_CluesAndRejections ==
    [][gpc = "play" =>
          /\ \A r, c \in Idx(gsize) :
                 given[r][c] < 0 => gsquare'[r][c] = given[r][c]
          /\ said' \in Rejections => gsquare' = gsquare
          /\ gsize' = gsize]_vars

C23_Witness ==
    /\ said = "clue"
    /\ gsize = GameSize
    /\ gsquare # given
    /\ \E r, c \in Idx(gsize) : given[r][c] < 0 /\ gsquare[r][c] = given[r][c]
    /\ \E r, c \in Idx(gsize) : given[r][c] > 0 /\ gsquare[r][c] = 0


\* The values that can be placed at cell (r, c) of a frame: the flag is
\* untried and no cell of the row or the column holds the value, as entered
\* or as a clue.
Placeable(f, r, c) ==
    {v \in 1 .. f.size :
        /\ f.moves[v - 1] = 1
        /\ \A k \in Idx(f.size) \ {c} : abs(f.square[r][k]) # v
        /\ \A k \in Idx(f.size) \ {r} : abs(f.square[k][c]) # v}

\* C24: a step that pushes places, at the next empty cell of the top frame,
\* the smallest value that is placeable there; nothing else is changed in
\* the grid.
C24_SmallestCandidate ==
    [][pushCounter' = pushCounter + 1 =>
          LET top    == Top(stack)
              placed == Top(stack')
              r      == placed.row
              c      == placed.col
          IN  /\ <<r, c>> = <<row, col>>
              /\ top.square[r][c] = 0
              /\ placed.square[r][c] \in Placeable(top, r, c)
              /\ \A v \in Placeable(top, r, c) : placed.square[r][c] <= v
              /\ placed.square = [top.square EXCEPT ![r][c] = placed.square[r][c]]]_vars

C24_Witness ==
    /\ pc = "SEARCHING"
    /\ trace # <<>>
    /\ trace[Len(trace)] = "push"
    /\ stack.size >= 2
    /\ LET top   == stack.nodes[1]
           below == stack.nodes[2]
       IN  \E v \in 1 .. (top.square[top.row][top.col] - 1) :
               /\ below.moves[v - 1] = 0
               /\ ~checkDuplicates(below, v, top.row, top.col)


\* C25: a backtrack that leaves frames on the stack changes the new top in
\* one thing: the flag of the value the popped frame held at its cursor,
\* untried before, is cleared. Its grid, its cursor, its other flags and the
\* frames below it are as before.
C25_BacktrackMarksOneFlag ==
    [][popCounter' = popCounter + 1 =>
          LET popped == stack.nodes[1]
              before == stack.nodes[2]
              after  == stack'.nodes[1]
              v      == popped.square[popped.row][popped.col]
          IN  /\ v \in 1 .. before.size
              /\ before.moves[v - 1] = 1
              /\ after.moves = [before.moves EXCEPT ![v - 1] = 0]
              /\ after.square = before.square
              /\ after.row = before.row
              /\ after.col = before.col
              /\ after.size = before.size
              /\ Tail(stack'.nodes) = Tail(Tail(stack.nodes))]_vars

C25_Witness ==
    /\ pc = "SEARCHING"
    /\ trace # <<>>
    /\ trace[Len(trace)] = "pop"
    /\ stack.size >= 2
    /\ Cardinality({k \in Idx(node.size) : Top(stack).moves[k] = 0}) >= 2
    /\ <<Top(stack).row, Top(stack).col>> # <<0, 0>>


\* Frame number j of a stack, counted from the bottom.
FromBottom(s, j) == s.nodes[Len(s.nodes) + 1 - j]

\* C26: in a step of the search, a frame that stays on the stack keeps every
\* cleared candidate flag, and a push leaves every frame already stored as
\* it was, flags included.
C26_ClearedFlagsStay ==
    [][(pc = "SEARCHING" /\ pc' = "SEARCHING") =>
          /\ \A j \in 1 .. Len(stack.nodes) :
                 j <= Len(stack'.nodes) =>
                     \A k \in Idx(node.size) :
                         FromBottom(stack, j).moves[k] = 0 =>
                             FromBottom(stack', j).moves[k] = 0
          /\ Len(stack'.nodes) > Len(stack.nodes) =>
                 \A j \in 1 .. Len(stack.nodes) :
                     FromBottom(stack', j) = FromBottom(stack, j)]_vars

C26_Witness ==
    /\ pc = "SEARCHING"
    /\ Len(trace) >= 4
    /\ SubSeq(trace, Len(trace) - 3, Len(trace)) = <<"pop", "push", "push", "pop">>
    /\ stack.size >= 2
    /\ \E k \in Idx(node.size) : stack.nodes[2].moves[k] = 0


\* The first zero cell of a grid in row-major order, <<-1, -1>> when none.
FirstEmpty(g, n) ==
    LET zeros == {c \in Cells(n) : g[c[1]][c[2]] = 0} IN
    IF zeros = {} THEN <<-1, -1>>
    ELSE CHOOSE c \in zeros :
             \A d \in zeros : c[1] * n + c[2] <= d[1] * n + d[2]

\* The one frame on the stack is the frame of the input, and no value is
\* left for the first empty cell of the input.
InputExhausted ==
    /\ stack.size = 1
    /\ Len(stack.nodes) = 1
    /\ Top(stack).square = node.square
    /\ FirstEmpty(node.square, node.size) # <<-1, -1>>
    /\ Placeable(Top(stack), FirstEmpty(node.square, node.size)[1],
                 FirstEmpty(node.square, node.size)[2]) = {}

\* C27: the search ends as UNSOLVABLE exactly in the step that pops the
\* frame of the input, when no value is left for the first empty cell of
\* the input; the stack is empty then. A backtrack that leaves a frame on
\* the stack does not end the search.
C27_UnsolvableWhenInputPopped ==
    [][pc = "SEARCHING" =>
          /\ pc' = "UNSOLVABLE" =>
                 /\ InputExhausted
                 /\ stack'.nodes = <<>>
                 /\ stack'.size = 0
                 /\ trace' = Append(trace, "pop")
          /\ (InputExhausted /\ trace' # trace) => pc' = "UNSOLVABLE"
          /\ (trace' = Append(trace, "pop") /\ stack'.size > 0) => pc' = "SEARCHING"]_vars

C27_Witness ==
    /\ pc = "UNSOLVABLE"
    /\ stack.size = 0
    /\ popCounter >= 2
    /\ pushCounter >= 2
    /\ node.size = MaxSize


\* solveLatinSquare reads stack->top: on entry (the size of the top), at
\* the clone before the loop and at the clone that ends every step; "fault"
\* is the read on entry that went through a NULL top.
ReadsTop == pc \in {"call", "SEARCHING", "fault"}

\* C28: whenever solveLatinSquare reads the top of the stack, the stack
\* holds a frame, and pop is called on a stack that holds a frame.
C28_NeverOnEmptyStack ==
    [][/\ ReadsTop' => (stack'.size >= 1 /\ Len(stack'.nodes) >= 1)
       /\ trace' = Append(trace, "pop") =>
              (stack.size >= 1 /\ Len(stack.nodes) >= 1)]_vars


\* C29: for the frame on top of the stack during the search, pushed or
\* exposed again by a backtrack, the search for an empty cell from the
\* frame's cursor gives the first empty cell of the whole grid, or none when
\* the grid has none; the cell the driver works on is that cell.
C29_ResumedScanIsFullScan ==
    pc = "SEARCHING" =>
        /\ findNextEmptyCell(Top(stack)) = FirstEmpty(Top(stack).square, Top(stack).size)
        /\ <<row, col>> = FirstEmpty(Top(stack).square, Top(stack).size)

C29_Witness ==
    /\ pc = "SEARCHING"
    /\ trace # <<>>
    /\ trace[Len(trace)] = "pop"
    /\ <<Top(stack).row, Top(stack).col>> # <<0, 0>>
    /\ Top(stack).col # 0
    /\ <<row, col>> # <<-1, -1>>
    /\ row > Top(stack).row
    /\ col < Top(stack).col

\* The place of cell (r, c) in the row-major order of a grid of size n.
CellOrder(r, c, n) == r * n + c

\* C30: in every frame on the stack each cell before the frame's cursor in
\* row-major order is not zero, and a push writes a cell that is not before
\* the cursor of the frame it is put on.
C30_NoZeroBeforeCursor ==
    [][/\ Solving' =>
              \A k \in 1 .. Len(stack'.nodes) :
                  LET f == stack'.nodes[k] IN
                  \A c \in Cells(f.size) :
                      CellOrder(c[1], c[2], f.size) < CellOrder(f.row, f.col, f.size)
                          => f.square[c[1]][c[2]] # 0
       /\ pushCounter' = pushCounter + 1 =>
              CellOrder(Top(stack').row, Top(stack').col, node.size)
                  >= CellOrder(Top(stack).row, Top(stack).col, node.size)]_vars

C30_Witness ==
    /\ pc = "SEARCHING"
    /\ stack.size >= 3
    /\ popCounter >= 1
    /\ CellOrder(Top(stack).row, Top(stack).col, node.size) >= 3
    /\ \E c \in Cells(node.size) :
           /\ CellOrder(c[1], c[2], node.size) < CellOrder(Top(stack).row, Top(stack).col, node.size)
           /\ Top(stack).square[c[1]][c[2]] < 0



\* C31: every snapshot on the Stack during a solve has no two non-zero cells
\* of the same magnitude in a row or in a column.
C31_FramesDupFree ==
    Solving =>
        \A k \in 1 .. Len(stack.nodes) :
            DupFree(stack.nodes[k].square, stack.nodes[k].size)


\* The number of cells that are empty in the input and filled in the frame:
\* the cells the solver has assigned in it.
Assigned(f) ==
    Cardinality({c \in Cells(node.size) :
                    /\ node.square[c[1]][c[2]] = 0
                    /\ f.square[c[1]][c[2]] # 0})

\* The frame count of the stack is one more than the number of cells the
\* solver has assigned in the top frame.
DepthMatches(s) ==
    /\ s.size = Len(s.nodes)
    /\ s.size = 1 + Assigned(Top(s))

\* C32: while the search runs the stack holds 1 + (cells assigned in the top
\* frame) frames, and every step of the driver changes the frame count by
\* exactly one: +1 for a placement, -1 for a backtrack.
C32_DepthIsAssignedCells ==
    [][/\ pc \in {"SEARCHING", "SOLVED"} => DepthMatches(stack)
       /\ pc' \in {"SEARCHING", "SOLVED"} => DepthMatches(stack')
       /\ (pc = "SEARCHING" /\ trace' # trace) =>
            /\ trace'[Len(trace')] = "push" => stack'.size = stack.size + 1
            /\ trace'[Len(trace')] = "pop" => stack'.size = stack.size - 1]_vars

\* A placement on top of three frames after a backtrack: the depth has gone
\* up and down.
C32_Witness ==
    /\ pc = "SEARCHING"
    /\ popCounter >= 1
    /\ stack.size >= 3
    /\ trace # <<>> /\ trace[Len(trace)] = "push"


\* The addresses of the cells that are allocated.
Allocated(h) == {a \in 1 .. Len(h) : h[a] # FreeCell}

C34_StepsWithinCube ==
    (Solving /\ DupFree(node.square, node.size)) =>
        Len(trace) <= node.size * node.size * node.size

\* C34 as amended: the pushes of one solve number at most N + N^2 + ... + N^z,
\* z the number of empty cells of the input, and the pops at most one more
\* than the pushes.
C34_StepsWithinTree ==
    Solving =>
        /\ pushCounter <= TreeSize(node.size, Zeros(node.square, node.size)) - 1
        /\ Len(trace) <= 2 * pushCounter + 1

\* A solve of an input without repeated values that has made more than
\* N * N * N pushes and pops and ended.
C34_Witness ==
    /\ pc \in {"SOLVED", "UNSOLVABLE"}
    /\ DupFree(node.square, node.size)
    /\ Len(trace) > node.size * node.size * node.size
    /\ pushCounter >= 1

\* C35: the grids pushed during one solve are pairwise different: no grid is
\* pushed twice.
C35_NoGridPushedTwice ==
    \A i, j \in 1 .. Len(pushed) : i # j => pushed[i] # pushed[j]

\* A push made after two backtracks, several grids having been pushed before.
C35_Witness ==
    /\ pc = "SEARCHING"
    /\ popCounter >= 2
    /\ Len(pushed) >= 5
    /\ trace[Len(trace)] = "push"


\* Grid a comes before grid b: at the first cell, in row-major order, where
\* they differ, a holds the smaller value.
LexLess(a, b, n) ==
    \E p \in Cells(n) :
        /\ a[p[1]][p[2]] < b[p[1]][p[2]]
        /\ \A q \in Cells(n) :
              CellOrder(q[1], q[2], n) < CellOrder(p[1], p[2], n) =>
                  a[q[1]][q[2]] = b[q[1]][q[2]]

\* C36: for an input without a repeated magnitude in a row or a column, the
\* grid on top of the stack on SOLVED is a completion of the input and comes
\* before every other completion, the values of the input's empty cells
\* compared in row-major order.
C36_SmallestCompletion ==
    (pc = "SOLVED" /\ DupFree(node.square, node.size)) =>
        /\ Top(stack).square \in Completions(node.square, node.size)
        /\ \A c \in Completions(node.square, node.size) :
              c # Top(stack).square => LexLess(Top(stack).square, c, node.size)

\* A solved input with several completions, found after a backtrack.
C36_Witness ==
    /\ pc = "SOLVED" /\ ~rerun
    /\ DupFree(node.square, node.size)
    /\ Cardinality(Completions(node.square, node.size)) >= 2
    /\ popCounter >= 1


\* The cells of the row r and of the column c of the Node, the cell (r, c)
\* itself left out, that hold the magnitude num.
Conflicts(n, num, r, c) ==
    {p \in Cells(n.size) :
        /\ p # <<r, c>>
        /\ p[1] = r \/ p[2] = c
        /\ abs(n.square[p[1]][p[2]]) = num}

\* C37: checkDuplicates returns true exactly when a cell of the row or of the
\* column, other than (row, col), holds the magnitude num; whatever (row, col)
\* itself holds, the answer is the same.
C37_CheckDuplicatesMeaning ==
    call.fn = "checkDuplicates" =>
        /\ out = (Conflicts(call.node, call.num, call.row, call.col) # {})
        /\ \A v \in (-call.node.size) .. call.node.size :
              checkDuplicates([call.node EXCEPT !.square[call.row][call.col] = v],
                              call.num, call.row, call.col) = out

\* A call that finds no duplicate although the cell itself holds the
\* magnitude asked for, in a grid with other cells filled in.
C37_Witness ==
    /\ call.fn = "checkDuplicates"
    /\ out = FALSE
    /\ call.node.size >= 2
    /\ abs(call.node.square[call.row][call.col]) = call.num
    /\ call.num >= 1
    /\ \E p \in Cells(call.node.size) :
          p[1] # call.row /\ p[2] # call.col /\ abs(call.node.square[p[1]][p[2]]) = call.num


\* C38: updateNode leaves the Node with the value written at (row, col),
\* whatever the value (out of 1..size, or repeating a value of the row or
\* the column), the cursor at (row, col) and every candidate flag untried;
\* every other cell and the size are as before.
C38_UpdateNodeWritesOneCell ==
    call.fn = "updateNode" =>
        /\ out.square[call.row][call.col] = call.num
        /\ \A p \in Cells(call.node.size) :
              p # <<call.row, call.col>> =>
                  out.square[p[1]][p[2]] = call.node.square[p[1]][p[2]]
        /\ out.row = call.row
        /\ out.col = call.col
        /\ \A i \in Idx(call.node.size) : out.moves[i] = 1
        /\ out.size = call.node.size
        /\ DOMAIN out.square = DOMAIN call.node.square
        /\ DOMAIN out.moves = DOMAIN call.node.moves

\* An update that writes a value a cell of the same row already holds, on a
\* Node with a flag tried and the cursor on another cell.
C38_Witness ==
    /\ call.fn = "updateNode"
    /\ call.num >= 1
    /\ \E k \in Idx(call.node.size) :
          k # call.col /\ abs(call.node.square[call.row][k]) = call.num
    /\ out.square[call.row][call.col] = call.num
    /\ \E i \in Idx(call.node.size) : call.node.moves[i] = 0
    /\ <<call.node.row, call.node.col>> # <<call.row, call.col>>


\* C39: in the game, when the square read from the file has no two non-zero
\* cells of the same magnitude in a row or a column, the square has none
\* after any commands of the player.
C39_GameKeepsDupFree ==
    (gpc \in {"play", "over", "exit"} /\ DupFree(given, gsize)) =>
        DupFree(gsquare, gsize)

\* A square with a clue that the player has changed, without a repeated
\* magnitude when read, after a command that was refused for a value present
\* in the row or the column.
C39_Witness ==
    /\ gpc = "play"
    /\ gsize = GameSize
    /\ DupFree(given, gsize)
    /\ gsquare # given
    /\ said \in {"row", "column"}
    /\ \E r, c \in Idx(gsize) : given[r][c] < 0
    /\ \E r, c \in Idx(gsize) : given[r][c] = 0 /\ gsquare[r][c] > 0

=============================================================================
